---------------------------- MODULE Spec2Model ----------------------------
(***************************************************************************)
(* A model of kademlia_aio (src/kademlia_aio/__init__.py): the datagram    *)
(* RPC engine (DatagramRPCProtocol), the Kademlia node (KademliaNode: the  *)
(* four primitive RPCs and lookup_node / put / get) and the routing table  *)
(* (RoutingTable).                                                         *)
(*                                                                         *)
(* Identifiers are IdBits wide instead of 160 bits wide; an OrderedDict is *)
(* a sequence of <<identifier, address>> pairs in insertion order.         *)
(***************************************************************************)
EXTENDS Integers, Sequences, FiniteSets, TLC

(***************************************************************************)
(* Bounds of the model.                                                    *)
(***************************************************************************)
\* width of an identifier in bits (160 in the source)
IdBits == 3
\* bucket capacity and lookup-result width (the k parameter, 20 by default)
K == 2
\* probes per lookup round (the alpha parameter, 3 by default)
Alpha == 2
\* the identifiers in use (nodes, peers named by callers, keys) are 0..MaxPeerId
MaxPeerId == 5
\* nodes of the network; node n listens on address n, address 0 has no listener
NumNodes == 3

\* calls of request() made in one behaviour
MaxRequests == 3
MaxFutures == 6

Ids      == 0..MaxPeerId
Node     == 1..NumNodes
Addrs    == 0..NumNodes
Buckets  == 0..(IdBits - 1)

Min(a, b) == IF a < b THEN a ELSE b
Max(a, b) == IF a > b THEN a ELSE b

(***************************************************************************)
(* Identifier utilities.                                                   *)
(***************************************************************************)
RECURSIVE Xor(_, _)
Xor(a, b) ==
    IF a = 0 THEN b
    ELSE IF b = 0 THEN a
    ELSE 2 * Xor(a \div 2, b \div 2) + (((a % 2) + (b % 2)) % 2)

RECURSIVE BitLength(_)
BitLength(x) == IF x = 0 THEN 0 ELSE 1 + BitLength(x \div 2)

\* RoutingTable.distance
distance(node_identifier, peer_identifier) == Xor(node_identifier, peer_identifier)

\* bucket_index that takes the bit length of the identifier, not of the distance
bucket_index_noxor(node_identifier, peer_identifier) ==
    IF peer_identifier = node_identifier THEN IdBits
    ELSE Min(IdBits - 1, IdBits - BitLength(peer_identifier))

\* RoutingTable.bucket_index, for 0 <= peer_identifier < 2^IdBits

bucket_index(node_identifier, peer_identifier) ==
    IdBits - BitLength(distance(node_identifier, peer_identifier))

(***************************************************************************)
(* OrderedDict, as a sequence of <<key, value>> pairs without duplicate    *)
(* keys, oldest insertion first.                                           *)
(***************************************************************************)
KeysOf(d) == {d[i][1] : i \in 1..Len(d)}

Has(d, key) == key \in KeysOf(d)

ValueOf(d, key) == d[CHOOSE i \in 1..Len(d) : d[i][1] = key][2]

RECURSIVE Del(_, _)
Del(d, key) ==
    IF d = <<>> THEN <<>>
    ELSE IF Head(d)[1] = key THEN Tail(d)
    ELSE <<Head(d)>> \o Del(Tail(d), key)

\* d[key] = value for a key that is not in d
Insert(d, key, value) == Append(d, <<key, value>>)

RECURSIVE Reversed(_)
Reversed(d) == IF d = <<>> THEN <<>> ELSE Append(Reversed(Tail(d)), Head(d))

RECURSIVE Without(_, _)
Without(s, key) ==
    IF s = <<>> THEN <<>>
    ELSE IF Head(s)[1] = key THEN Without(Tail(s), key)
    ELSE <<Head(s)>> \o Without(Tail(s), key)

(***************************************************************************)
(* RoutingTable.  A table is a record [buckets, replacement_caches], each  *)
(* a function from the bucket indexes to an OrderedDict.                   *)
(***************************************************************************)
EmptyTable ==
    [buckets            |-> [i \in Buckets |-> <<>>],
     replacement_caches |-> [i \in Buckets |-> <<>>]]

\* update_peer that, instead of ignoring the node's own identifier, files it
\* in the last bucket
update_peer_noself(rt, node_identifier, k, peer_identifier, peer) ==
    LET b      == Min(IdBits - 1, bucket_index(node_identifier, peer_identifier))
        bucket == rt.buckets[b]
        cache  == rt.replacement_caches[b]
    IN  IF Has(bucket, peer_identifier)
        THEN [rt EXCEPT !.buckets[b] =
                 Insert(Del(bucket, peer_identifier), peer_identifier, peer)]
        ELSE IF Len(bucket) < k
        THEN [rt EXCEPT !.buckets[b] = Insert(bucket, peer_identifier, peer)]
        ELSE [rt EXCEPT !.replacement_caches[b] =
                 Insert(Del(cache, peer_identifier), peer_identifier, peer)]

\* update_peer that lets a full bucket grow
update_peer_nocap(rt, node_identifier, k, peer_identifier, peer) ==
    LET b      == bucket_index(node_identifier, peer_identifier)
        bucket == rt.buckets[b]
    IN  IF peer_identifier = node_identifier THEN rt
        ELSE [rt EXCEPT !.buckets[b] =
                 Insert(Del(bucket, peer_identifier), peer_identifier, peer)]

\* update_peer that gives a known peer its new address where it stands,
\* without `del bucket[peer_identifier]'
update_peer_inplace(rt, node_identifier, k, peer_identifier, peer) ==
    LET b      == bucket_index(node_identifier, peer_identifier)
        bucket == rt.buckets[b]
        cache  == rt.replacement_caches[b]
    IN  IF peer_identifier = node_identifier THEN rt
        ELSE IF Has(bucket, peer_identifier)
        THEN [rt EXCEPT !.buckets[b] =
                 [j \in 1..Len(bucket) |->
                     IF bucket[j][1] = peer_identifier
                     THEN <<peer_identifier, peer>> ELSE bucket[j]]]
        ELSE IF Len(bucket) < k
        THEN [rt EXCEPT !.buckets[b] = Insert(bucket, peer_identifier, peer)]
        ELSE [rt EXCEPT !.replacement_caches[b] =
                 Insert(Del(cache, peer_identifier), peer_identifier, peer)]

\* update_peer that files a peer of a full bucket behind the cached ones
\* without looking whether it is cached already
update_peer_nodel(rt, node_identifier, k, peer_identifier, peer) ==
    LET b      == bucket_index(node_identifier, peer_identifier)
        bucket == rt.buckets[b]
        cache  == rt.replacement_caches[b]
    IN  IF peer_identifier = node_identifier THEN rt
        ELSE IF Has(bucket, peer_identifier)
        THEN [rt EXCEPT !.buckets[b] =
                 Insert(Del(bucket, peer_identifier), peer_identifier, peer)]
        ELSE IF Len(bucket) < k
        THEN [rt EXCEPT !.buckets[b] = Insert(bucket, peer_identifier, peer)]
        ELSE [rt EXCEPT !.replacement_caches[b] =
                 Insert(cache, peer_identifier, peer)]

update_peer(rt, node_identifier, k, peer_identifier, peer) ==
    LET b      == bucket_index(node_identifier, peer_identifier)
        bucket == rt.buckets[b]
        cache  == rt.replacement_caches[b]
    IN  IF peer_identifier = node_identifier THEN rt
        ELSE IF Has(bucket, peer_identifier)
        THEN [rt EXCEPT !.buckets[b] =
                 Insert(Del(bucket, peer_identifier), peer_identifier, peer)]
        ELSE IF Len(bucket) < k
        THEN [rt EXCEPT !.buckets[b] = Insert(bucket, peer_identifier, peer)]
        ELSE [rt EXCEPT !.replacement_caches[b] =
                 Insert(Del(cache, peer_identifier), peer_identifier, peer)]

\* forget_peer that rotates no standby peer in
forget_peer_norefill(rt, node_identifier, peer_identifier) ==
    LET b      == bucket_index(node_identifier, peer_identifier)
        bucket == rt.buckets[b]
    IN  IF peer_identifier = node_identifier THEN rt
        ELSE IF Has(bucket, peer_identifier)
        THEN [rt EXCEPT !.buckets[b] = Del(bucket, peer_identifier)]
        ELSE rt

\* forget_peer that rotates in the peer cached first (popitem(last=False))
forget_peer_oldest(rt, node_identifier, peer_identifier) ==
    LET b      == bucket_index(node_identifier, peer_identifier)
        bucket == rt.buckets[b]
        cache  == rt.replacement_caches[b]
    IN  IF peer_identifier = node_identifier THEN rt
        ELSE IF Has(bucket, peer_identifier)
        THEN IF Len(cache) > 0
             THEN [rt EXCEPT
                     !.buckets[b] = Append(Del(bucket, peer_identifier),
                                           cache[1]),
                     !.replacement_caches[b] = Tail(cache)]
             ELSE [rt EXCEPT !.buckets[b] = Del(bucket, peer_identifier)]
        ELSE rt

forget_peer(rt, node_identifier, peer_identifier) ==
    LET b      == bucket_index(node_identifier, peer_identifier)
        bucket == rt.buckets[b]
        cache  == rt.replacement_caches[b]
    IN  IF peer_identifier = node_identifier THEN rt
        ELSE IF Has(bucket, peer_identifier)
        THEN IF Len(cache) > 0
             THEN [rt EXCEPT
                     !.buckets[b] = Append(Del(bucket, peer_identifier),
                                           cache[Len(cache)]),
                     !.replacement_caches[b] = SubSeq(cache, 1, Len(cache) - 1)]
             ELSE [rt EXCEPT !.buckets[b] = Del(bucket, peer_identifier)]
        ELSE rt

(***************************************************************************)
(* find_closest_peers.  SweepOrder is the order in which the loop over     *)
(* zip_longest(farther, closer) visits the bucket indexes; an index that   *)
(* is not a bucket (the index IdBits of the node's own identifier) is an   *)
(* IndexError.                                                             *)
(***************************************************************************)
\* the sweep that steps toward bucket 0 before it steps toward the last one
RECURSIVE SweepFrom_zerofirst(_, _)
SweepFrom_zerofirst(b, j) ==
    LET f == b - 1 - j
        c == b + 1 + j
    IN  (IF j = 0 THEN <<b>> ELSE <<>>)
        \o (IF f < 0 /\ c >= IdBits THEN <<>>
            ELSE (IF f >= 0 THEN <<f>> ELSE <<>>)
                 \o (IF c < IdBits THEN <<c>> ELSE <<>>)
                 \o SweepFrom_zerofirst(b, j + 1))

RECURSIVE SweepFrom(_, _)
SweepFrom(b, j) ==
    LET f == b - j
        c == b + 1 + j
    IN  IF f < 0 /\ c >= IdBits THEN <<>>
        ELSE (IF f >= 0 THEN <<f>> ELSE <<>>)
             \o (IF c < IdBits THEN <<c>> ELSE <<>>)
             \o SweepFrom(b, j + 1)

SweepOrder(b) == SweepFrom(b, 0)

RECURSIVE Collect(_, _, _)
Collect(rt, order, excluding) ==
    IF order = <<>> THEN <<>>
    ELSE Without(Reversed(rt.buckets[Head(order)]), excluding)
         \o Collect(rt, Tail(order), excluding)

\* find_closest_peers without `if len(peers) == k: return peers'
find_closest_peers_nocut(rt, node_identifier, self_k, key, excluding, k) ==
    LET order == SweepOrder(bucket_index(node_identifier, key))
    IN  IF Head(order) \notin Buckets
        THEN [ok |-> FALSE, peers |-> <<>>]
        ELSE [ok |-> TRUE, peers |-> Collect(rt, order, excluding)]

\* excluding = -1 stands for None, k = 0 for None (k or self.k)
find_closest_peers(rt, node_identifier, self_k, key, excluding, k) ==
    LET kk    == IF k = 0 THEN self_k ELSE k
        order == SweepOrder(bucket_index(node_identifier, key))
        all   == Collect(rt, order, excluding)
    IN  IF Head(order) \notin Buckets
        THEN [ok |-> FALSE, peers |-> <<>>]
        ELSE [ok |-> TRUE, peers |-> SubSeq(all, 1, Min(kk, Len(all)))]

(***************************************************************************)
(* Values on the wire.  A request frame carries (procedure_name, args),    *)
(* args being (peer_identifier[, key[, value]]); a reply frame carries the *)
(* answer (identifier, payload).  A payload is one of: an identifier       *)
(* (ping), True (store), a list of peers (find_node), ('found', value) or  *)
(* ('notfound', peers) (find_value).                                       *)
(***************************************************************************)
Values  == {"world", "again"}
NoValue == "none"
NoKey   == 0 - 1
NoId    == 0 - 1

Payload(tag, id, value, peers) ==
    [tag |-> tag, id |-> id, value |-> value, peers |-> peers]
PNone           == Payload("none", NoId, NoValue, <<>>)
PId(id)         == Payload("id", id, NoValue, <<>>)
PTrue           == Payload("true", NoId, NoValue, <<>>)
PPeers(peers)   == Payload("peers", NoId, NoValue, peers)
PFound(value)   == Payload("found", NoId, value, <<>>)
PNotFound(peers) == Payload("notfound", NoId, NoValue, peers)

Args(peer_identifier, key, value) ==
    [id |-> peer_identifier, key |-> key, value |-> value]

RequestFrame(message_identifier, procedure_name, args, src, dst) ==
    [direction |-> "request", message_identifier |-> message_identifier,
     procedure_name |-> procedure_name, args |-> args,
     answer |-> [id |-> NoId, payload |-> PNone], src |-> src, dst |-> dst]

ReplyFrame(message_identifier, answer, src, dst) ==
    [direction |-> "reply", message_identifier |-> message_identifier,
     procedure_name |-> "", args |-> Args(NoId, NoKey, NoValue),
     answer |-> answer, src |-> src, dst |-> dst]

Procedures == {"ping", "store", "find_node", "find_value"}

(***************************************************************************)
(* State.                                                                  *)
(***************************************************************************)
VARIABLES
    identifier,            \* KademliaNode.identifier of every node
    routing_table,         \* KademliaNode.routing_table of every node
    storage,               \* KademliaNode.storage of every node
    outstanding_requests,  \* DatagramRPCProtocol.outstanding_requests (its keys)
    futures,               \* the asyncio.Future of every request() made so far
    timers,                \* the loop.call_later callbacks not yet run
    network,               \* the datagrams in flight to a node of the model
    real,                  \* the nodes that are KademliaNode instances
    event,                 \* the callback the event loop ran last
    last_call,             \* the last call of update_peer / forget_peer
    pc,                    \* where the running coroutine is suspended
    op,                    \* the call the driver made last
    previous,              \* the put that returned just before that call
    lk,                    \* the locals of lookup_node
    awaiting,              \* the futures the suspended coroutine waits for
    outcome                \* what the call returned or raised

rpcVars == <<outstanding_requests, futures, timers, network>>
coVars == <<pc, op, previous, lk, awaiting, outcome>>
vars == <<identifier, routing_table, storage, outstanding_requests, futures,
          timers, network, real, event, last_call, pc, op, previous, lk,
          awaiting, outcome>>

NoCall  == [op |-> "none", node |-> 0, id |-> 0, addr |-> 0]
Event(kind, node, mid) == [kind |-> kind, node |-> node, mid |-> mid]

\* a call of lookup_node, put or get and its arguments
Call(kind, n, key, value, with_value) ==
    [kind |-> kind, node |-> n, key |-> key, value |-> value,
     find_value |-> with_value]

\* the put that returned just before the call, if one did
NoPrevious == [kind |-> "none", node |-> 0, key |-> NoKey, value |-> NoValue,
               count |-> 0]

\* the locals of lookup_node; probes lists the peers in the order they were
\* asked, rounds counts the passes of the while loop, stores lists the
\* peers put sent a store to, with the request's number
Locals(peers, contacted, dead, closest, probes, rounds, stores) ==
    [peers |-> peers, contacted |-> contacted, dead |-> dead,
     closest |-> closest, probes |-> probes, rounds |-> rounds,
     stores |-> stores]

NoLocals == Locals({}, {}, {}, <<>>, <<>>, 0, <<>>)

\* status is "none" before any call and "running" during one; then it is
\* "returned" or the exception raised
Outcome(status, peers, value, count) ==
    [status |-> status, peers |-> peers, value |-> value, count |-> count]

\* every 2^IdBits identifier can be a key of Storage
AllIds == 0..(2^IdBits - 1)

InitWith(ident, listeners) ==
    /\ identifier = ident
    /\ routing_table = [n \in Node |-> EmptyTable]
    /\ storage = [n \in Node |-> [key \in AllIds |-> NoValue]]
    /\ outstanding_requests = [n \in Node |-> {}]
    /\ futures = <<>>
    /\ timers = {}
    /\ network = {}
    /\ real = listeners
    /\ event = Event("none", 0, 0)
    /\ last_call = NoCall
    /\ pc = "idle"
    /\ op = Call("none", 0, NoKey, NoValue, FALSE)
    /\ previous = NoPrevious
    /\ lk = NoLocals
    /\ awaiting = {}
    /\ outcome = Outcome("none", <<>>, NoValue, 0)

\* the identifier given to node n at construction (identifier=...)
IdentifierOf(n) == (5 * n) % 8

(***************************************************************************)
(* Direct calls of the routing table's methods (tests/test_routing_table). *)
(***************************************************************************)
UpdatePeerCall(n, peer_identifier, peer) ==
    /\ routing_table' = [routing_table EXCEPT ![n] =
           update_peer(@, identifier[n], K, peer_identifier, peer)]
    /\ last_call' = [op |-> "update_peer", node |-> n,
                     id |-> peer_identifier, addr |-> peer]
    /\ UNCHANGED <<identifier, storage, rpcVars, real, event, coVars>>

ForgetPeerCall(n, peer_identifier) ==
    /\ routing_table' = [routing_table EXCEPT ![n] =
           forget_peer(@, identifier[n], peer_identifier)]
    /\ last_call' = [op |-> "forget_peer", node |-> n,
                     id |-> peer_identifier, addr |-> 0]
    /\ UNCHANGED <<identifier, storage, rpcVars, real, event, coVars>>

(***************************************************************************)
(* DatagramRPCProtocol.  The four variables of the engine are handled as   *)
(* one record, so that a step that makes several requests composes.        *)
(* get_random_identifier() draws 160 random bits: the message identifier   *)
(* is modelled as an identifier never drawn before, the number of the      *)
(* request, which also names the request's Future.                         *)
(***************************************************************************)
Rpc == [outstanding_requests |-> outstanding_requests, futures |-> futures,
        timers |-> timers, network |-> network]

SetRpc(r) ==
    /\ outstanding_requests' = r.outstanding_requests
    /\ futures' = r.futures
    /\ timers' = r.timers
    /\ network' = r.network

\* the Future of a request, and the request it stands for
PendingFuture(n, peer, procedure_name, args) ==
    [owner |-> n, state |-> "pending", answer |-> PNone, nset |-> 0,
     peer |-> peer, procedure_name |-> procedure_name, args |-> args]

\* Future.set_result / Future.set_exception: a second call raises
\* InvalidStateError and leaves the future as it is
Resolve(future, state, answer) ==
    IF future.state = "pending"
    THEN [future EXCEPT !.state = state, !.answer = answer, !.nset = 1]
    ELSE [future EXCEPT !.nset = @ + 1]

\* transport.sendto: a datagram to an address of the model is in flight;
\* one to any other address leaves the model
sendto(net, frame) == IF frame.dst \in real THEN net \cup {frame} ELSE net

\* request() that schedules no timeout
request_notimer(r, n, peer, procedure_name, args) ==
    LET message_identifier == Len(r.futures) + 1
    IN  [r EXCEPT
           !.outstanding_requests[n] = @ \cup {message_identifier},
           !.futures = Append(@, PendingFuture(n, peer, procedure_name, args)),
           !.network = sendto(@, RequestFrame(message_identifier,
                                  procedure_name, args, n, peer))]

request(r, n, peer, procedure_name, args) ==
    LET message_identifier == Len(r.futures) + 1
    IN  [r EXCEPT
           !.outstanding_requests[n] = @ \cup {message_identifier},
           !.futures = Append(@, PendingFuture(n, peer, procedure_name, args)),
           !.timers = @ \cup {[node |-> n, mid |-> message_identifier]},
           !.network = sendto(@, RequestFrame(message_identifier,
                                  procedure_name, args, n, peer))]

\* reply_received that leaves the entry in outstanding_requests
rpc_reply_received_nopop(r, n, message_identifier, answer) ==
    IF message_identifier \in r.outstanding_requests[n]
    THEN [r EXCEPT
            !.futures[message_identifier] = Resolve(@, "result", answer)]
    ELSE r

\* DatagramRPCProtocol.reply_received
rpc_reply_received(r, n, message_identifier, answer) ==
    IF message_identifier \in r.outstanding_requests[n]
    THEN [r EXCEPT
            !.outstanding_requests[n] = @ \ {message_identifier},
            !.futures[message_identifier] = Resolve(@, "result", answer)]
    ELSE r

\* DatagramRPCProtocol.reply_timed_out
reply_timed_out(r, n, message_identifier) ==
    IF message_identifier \in r.outstanding_requests[n]
    THEN [r EXCEPT
            !.outstanding_requests[n] = @ \ {message_identifier},
            !.futures[message_identifier] = Resolve(@, "exception", PNone)]
    ELSE r

\* DatagramRPCProtocol.reply
reply(r, n, peer, message_identifier, answer) ==
    [r EXCEPT !.network = sendto(@, ReplyFrame(message_identifier, answer, n, peer))]

(***************************************************************************)
(* KademliaNode: the reply functions of the four primitive RPCs.  Each     *)
(* gives [ok, answer, storage]; ok is FALSE when the function raises       *)
(* (find_closest_peers indexing a bucket that does not exist).             *)
(***************************************************************************)
Answer(id, payload) == [id |-> id, payload |-> payload]

Handled(ok, answer, st) == [ok |-> ok, answer |-> answer, storage |-> st]

ping(n, rt, st, args) ==
    Handled(TRUE, Answer(identifier[n], PId(identifier[n])), st)

\* store that keeps a value already stored under the key
store_keepfirst(n, rt, st, args) ==
    Handled(TRUE, Answer(identifier[n], PTrue),
            IF st[args.key] = NoValue
            THEN [st EXCEPT ![args.key] = args.value] ELSE st)

store(n, rt, st, args) ==
    Handled(TRUE, Answer(identifier[n], PTrue),
            [st EXCEPT ![args.key] = args.value])

\* find_node that excludes no peer
find_node_noexclude(n, rt, st, args) ==
    LET found == find_closest_peers(rt, identifier[n], K, args.key, NoId, 0)
    IN  Handled(found.ok, Answer(identifier[n], PPeers(found.peers)), st)

find_node(n, rt, st, args) ==
    LET found == find_closest_peers(rt, identifier[n], K, args.key, args.id, 0)
    IN  Handled(found.ok, Answer(identifier[n], PPeers(found.peers)), st)

find_value(n, rt, st, args) ==
    LET found == find_closest_peers(rt, identifier[n], K, args.key, args.id, 0)
    IN  IF st[args.key] # NoValue
        THEN Handled(TRUE, Answer(identifier[n], PFound(st[args.key])), st)
        ELSE Handled(found.ok, Answer(identifier[n], PNotFound(found.peers)), st)

\* self.reply_functions[procedure_name](self, peer, *args)
reply_function(n, rt, st, procedure_name, args) ==
    CASE procedure_name = "ping"       -> ping(n, rt, st, args)
      [] procedure_name = "store"      -> store(n, rt, st, args)
      [] procedure_name = "find_node"  -> find_node(n, rt, st, args)
      [] procedure_name = "find_value" -> find_value(n, rt, st, args)

\* self.routing_table.update_peer(peer_identifier, peer), as request_received
\* and reply_received call it
seen_peer(n, peer_identifier, peer) ==
    update_peer(routing_table[n], identifier[n], K, peer_identifier, peer)

\* KademliaNode.request_received, then DatagramRPCProtocol.request_received;
\* net is the network without the datagram being handled
request_received(n, d, net) ==
    LET rt == seen_peer(n, d.args.id, d.src)
        h  == reply_function(n, rt, storage[n], d.procedure_name, d.args)
        r  == [Rpc EXCEPT !.network = net]
    IN  /\ routing_table' = [routing_table EXCEPT ![n] = rt]
        /\ storage' = [storage EXCEPT ![n] = h.storage]
        /\ SetRpc(IF h.ok
                  THEN reply(r, n, d.src, d.message_identifier, h.answer)
                  ELSE r)
        /\ event' = Event("request_received", n, d.message_identifier)
        /\ last_call' = [op |-> "update_peer", node |-> n,
                         id |-> d.args.id, addr |-> d.src]

\* reply_received that notes the sender only when the reply is awaited
reply_received_pendingonly(n, d, net) ==
    LET rt == IF d.message_identifier \in outstanding_requests[n]
              THEN seen_peer(n, d.answer.id, d.src) ELSE routing_table[n]
        r  == [Rpc EXCEPT !.network = net]
    IN  /\ routing_table' = [routing_table EXCEPT ![n] = rt]
        /\ SetRpc(rpc_reply_received(r, n, d.message_identifier, d.answer.payload))
        /\ event' = Event("reply_received", n, d.message_identifier)
        /\ last_call' = [op |-> "update_peer", node |-> n,
                         id |-> d.answer.id, addr |-> d.src]
        /\ UNCHANGED storage

\* KademliaNode.reply_received, then DatagramRPCProtocol.reply_received
reply_received(n, d, net) ==
    LET rt == seen_peer(n, d.answer.id, d.src)
        r  == [Rpc EXCEPT !.network = net]
    IN  /\ routing_table' = [routing_table EXCEPT ![n] = rt]
        /\ SetRpc(rpc_reply_received(r, n, d.message_identifier, d.answer.payload))
        /\ event' = Event("reply_received", n, d.message_identifier)
        /\ last_call' = [op |-> "update_peer", node |-> n,
                         id |-> d.answer.id, addr |-> d.src]
        /\ UNCHANGED storage

\* DatagramRPCProtocol.datagram_received
datagram_received(n, d, net) ==
    /\ IF d.direction = "request"
       THEN request_received(n, d, net)
       ELSE reply_received(n, d, net)
    /\ UNCHANGED <<identifier, real, coVars>>

\* the event loop hands a datagram in flight to its node
Deliver(d) ==
    /\ d \in network
    /\ datagram_received(d.dst, d, network \ {d})

\* the event loop runs a scheduled reply_timed_out
TimerFire(t) ==
    /\ t \in timers
    /\ SetRpc(reply_timed_out([Rpc EXCEPT !.timers = @ \ {t}], t.node, t.mid))
    /\ event' = Event("timer", t.node, t.mid)
    /\ UNCHANGED <<identifier, routing_table, storage, real, last_call, coVars>>

\* the event loop runs the reply_timed_out of a request still outstanding
\* (the one of a request already answered changes nothing)
Timeout(t) ==
    /\ t.mid \in outstanding_requests[t.node]
    /\ TimerFire(t)

\* a direct call of request(), as the @remote wrappers make it
IssueRequest(n, peer, procedure_name, args) ==
    /\ Len(futures) < MaxRequests
    /\ SetRpc(request(Rpc, n, peer, procedure_name, args))
    /\ event' = Event("request", n, Len(futures) + 1)
    /\ UNCHANGED <<identifier, routing_table, storage, real, last_call, coVars>>

(***************************************************************************)
(* The coroutines lookup_node, put and get.  One call runs at a time; a    *)
(* coroutine runs from one `yield from' to the next in one step, and is    *)
(* resumed in a later step than the one that resolved its future.          *)
(***************************************************************************)
\* the key the callers look up and store
TheKey == 6

\* get_identifier: the SHA-1 digest of the key, a fixed function of it
RawKeys == {"hello"}
get_identifier(raw_key) == CASE raw_key = "hello" -> TheKey

SetOf(s) == {s[i] : i \in 1..Len(s)}

\* sorted(S, key=distance): the order of peers at the same distance is the
\* iteration order of a set, so every ascending arrangement is an outcome
RECURSIVE sorted(_, _)
sorted(S, key) ==
    IF S = {} THEN {<<>>}
    ELSE UNION {{<<p>> \o t : t \in sorted(S \ {p}, key)} :
                p \in {q \in S : \A r \in S :
                          distance(q[1], key) <= distance(r[1], key)}}

\* sorted(uncontacted, key=distance) without the slice [:self.alpha]
closest_of_noslice(uncontacted, key, alpha) == sorted(uncontacted, key)

\* sorted(uncontacted, key=distance)[:self.alpha]
closest_of(uncontacted, key, alpha) ==
    {SubSeq(s, 1, Min(alpha, Len(s))) : s \in sorted(uncontacted, key)}

\* the return value with the dead peers left in
lookup_result_withdead(peers, dead, key, k) ==
    {SubSeq(s, 1, Min(k, Len(s))) : s \in sorted(peers, key)}

\* sorted(peers - dead, key=distance)[:self.k]
lookup_result(peers, dead, key, k) ==
    {SubSeq(s, 1, Min(k, Len(s))) : s \in sorted(peers \ dead, key)}

\* the loop over contacts without `if new_peer_identifier == self.identifier'
add_contacts_withself(n, peers, contacts) == peers \cup SetOf(contacts)

\* the loop over contacts: peers.add of every contact but this node
add_contacts(n, peers, contacts) ==
    peers \cup {c \in SetOf(contacts) : c[1] # identifier[n]}

\* r == True, as Python compares: True and the integer 1 are equal
EqualsTrue(payload) ==
    \/ payload.tag = "true"
    \/ payload.tag = "id" /\ payload.id = 1

\* len([r for r in results if r == True])
store_count(r, mids) ==
    Cardinality({m \in mids : /\ r.futures[m].state = "result"
                              /\ EqualsTrue(r.futures[m].answer)})

\* the configuration a coroutine is left in when it suspends or ends
Conf(p, l, r, a, o) ==
    [pc |-> p, lk |-> l, rpc |-> r, awaiting |-> a, outcome |-> o]

Running == Outcome("running", <<>>, NoValue, 0)

Ended(l, r, o) == Conf("idle", l, r, {}, o)

\* the body of the for loop without contacted.add
probe_noadd(call, l, closest, r) ==
    LET peer == Head(closest)
    IN  Conf("probe",
             [l EXCEPT !.closest = closest,
                       !.probes = Append(@, [peer |-> peer,
                                             mid |-> Len(r.futures) + 1])],
             request(r, call.node, peer[2],
                     IF call.find_value THEN "find_value" ELSE "find_node",
                     Args(identifier[call.node], call.key, NoValue)),
             {Len(r.futures) + 1}, Running)

\* the body of `for peer_identifier, peer in closest' up to its yield from
probe(call, l, closest, r) ==
    LET peer == Head(closest)
    IN  Conf("probe",
             [l EXCEPT !.contacted = @ \cup {peer}, !.closest = closest,
                       !.probes = Append(@, [peer |-> peer,
                                             mid |-> Len(r.futures) + 1])],
             request(r, call.node, peer[2],
                     IF call.find_value THEN "find_value" ELSE "find_node",
                     Args(identifier[call.node], call.key, NoValue)),
             {Len(r.futures) + 1}, Running)

\* put: the store coroutines, each run up to its yield from
RECURSIVE store_tasks(_, _, _)
store_tasks(call, peers, r) ==
    IF peers = <<>> THEN r
    ELSE store_tasks(call, Tail(peers),
             request(r, call.node, Head(peers)[2], "store",
                     Args(identifier[call.node], call.key, call.value)))

\* put after lookup_node returned: asyncio.gather of the store coroutines
gather_stores(call, l, peers, r) ==
    IF peers = <<>>
    THEN Ended(l, r, Outcome("returned", peers, NoValue, 0))
    ELSE Conf("stores",
              [l EXCEPT !.stores = [i \in 1..Len(peers) |->
                            [peer |-> peers[i], mid |-> Len(r.futures) + i]]],
              store_tasks(call, peers, r),
              (Len(r.futures) + 1)..(Len(r.futures) + Len(peers)),
              Outcome("running", peers, NoValue, 0))

\* lookup_node after `break'
loop_exit(call, l, r) ==
    IF call.find_value
    THEN {Ended(l, r, Outcome("KeyError: Not found", <<>>, NoValue, 0))}
    ELSE {IF call.kind = "put"
          THEN gather_stores(call, l, peers, r)
          ELSE Ended(l, r, Outcome("returned", peers, NoValue, 0)) :
             peers \in lookup_result(l.peers, l.dead, call.key, K)}

\* the while loop that ends after its first round, whatever candidates the
\* replies have named
while_loop_firstround(call, l, r) ==
    LET uncontacted == l.peers \ l.contacted
    IN  IF uncontacted = {} \/ l.rounds >= 1
        THEN loop_exit(call, l, r)
        ELSE {probe(call, [l EXCEPT !.rounds = @ + 1], closest, r) :
                 closest \in closest_of(uncontacted, call.key, Alpha)}

\* lookup_node from `while True' to the next yield from
while_loop(call, l, r) ==
    LET uncontacted == l.peers \ l.contacted
    IN  IF uncontacted = {}
        THEN loop_exit(call, l, r)
        ELSE {probe(call, [l EXCEPT !.rounds = @ + 1], closest, r) :
                 closest \in closest_of(uncontacted, call.key, Alpha)}

\* the for loop followed by `break', whatever peers the round has added
next_peer_oneround(call, l, r) ==
    IF Tail(l.closest) # <<>>
    THEN {probe(call, l, Tail(l.closest), r)}
    ELSE loop_exit(call, [l EXCEPT !.closest = <<>>], r)

\* the next peer of closest, or the next pass of the while loop
next_peer(call, l, r) ==
    IF Tail(l.closest) # <<>>
    THEN {probe(call, l, Tail(l.closest), r)}
    ELSE while_loop(call, [l EXCEPT !.closest = <<>>], r)

\* what a reply to find_node / find_value must be for the loop to take it
WellTyped(call, answer) ==
    IF call.find_value THEN answer.tag \in {"found", "notfound"}
    ELSE answer.tag = "peers"

\* lookup_node resumed, a contact named in the reply counting as one not
\* contacted yet
resumed_renamed(call, l, future, r) ==
    IF future.state = "exception"
    THEN next_peer(call, [l EXCEPT !.dead = @ \cup {Head(l.closest)}], r)
    ELSE IF ~WellTyped(call, future.answer)
    THEN {Ended(l, r, Outcome("TypeError", <<>>, NoValue, 0))}
    ELSE IF call.find_value /\ future.answer.tag = "found"
    THEN {Ended(l, r, Outcome("returned", <<>>, future.answer.value, 0))}
    ELSE next_peer(call, [l EXCEPT
                 !.peers = add_contacts(call.node, @, future.answer.peers),
                 !.contacted = @ \ SetOf(future.answer.peers)], r)

\* lookup_node resumed, without `except socket.timeout': the timeout of a
\* probe ends the lookup
resumed_noexcept(call, l, future, r) ==
    IF future.state = "exception"
    THEN {Ended(l, r, Outcome("socket.timeout", <<>>, NoValue, 0))}
    ELSE IF ~WellTyped(call, future.answer)
    THEN {Ended(l, r, Outcome("TypeError", <<>>, NoValue, 0))}
    ELSE IF call.find_value /\ future.answer.tag = "found"
    THEN {Ended(l, r, Outcome("returned", <<>>, future.answer.value, 0))}
    ELSE next_peer(call, [l EXCEPT !.peers =
                 add_contacts(call.node, @, future.answer.peers)], r)

\* lookup_node resumed with the outcome of the probe it waited for; a found
\* value is returned without the loop over the value as contacts
resumed_nofound(call, l, future, r) ==
    IF future.state = "exception"
    THEN next_peer(call, [l EXCEPT !.dead = @ \cup {Head(l.closest)}], r)
    ELSE IF ~WellTyped(call, future.answer)
    THEN {Ended(l, r, Outcome("TypeError", <<>>, NoValue, 0))}
    ELSE next_peer(call, [l EXCEPT !.peers =
                 add_contacts(call.node, @, future.answer.peers)], r)

resumed(call, l, future, r) ==
    IF future.state = "exception"
    THEN next_peer(call, [l EXCEPT !.dead = @ \cup {Head(l.closest)}], r)
    ELSE IF ~WellTyped(call, future.answer)
    THEN {Ended(l, r, Outcome("TypeError", <<>>, NoValue, 0))}
    ELSE IF call.find_value /\ future.answer.tag = "found"
    THEN {Ended(l, r, Outcome("returned", <<>>, future.answer.value, 0))}
    ELSE next_peer(call, [l EXCEPT !.peers =
                 add_contacts(call.node, @, future.answer.peers)], r)

\* lookup_node without the check of the seed
lookup_node_noseedcheck(call) ==
    LET n     == call.node
        found == find_closest_peers(routing_table[n], identifier[n], K,
                                    call.key, NoId, 0)
    IN  IF ~found.ok
        THEN {Ended(NoLocals, Rpc, Outcome("IndexError", <<>>, NoValue, 0))}
        ELSE while_loop(call, [NoLocals EXCEPT !.peers = SetOf(found.peers)],
                        Rpc)

\* lookup_node from its first line to its first yield from
lookup_node(call) ==
    LET n     == call.node
        found == find_closest_peers(routing_table[n], identifier[n], K,
                                    call.key, NoId, 0)
    IN  IF ~found.ok
        THEN {Ended(NoLocals, Rpc, Outcome("IndexError", <<>>, NoValue, 0))}
        ELSE IF found.peers = <<>>
        THEN {Ended(NoLocals, Rpc,
                    Outcome("KeyError: No peers", <<>>, NoValue, 0))}
        ELSE while_loop(call, [NoLocals EXCEPT !.peers = SetOf(found.peers)],
                        Rpc)

\* the result of a future is dropped once the coroutine that waited for it
\* has taken it: nothing refers to the Future any more
Consumed(r, mids) ==
    [r EXCEPT !.futures = [m \in 1..Len(@) |->
        IF m \in mids THEN [@[m] EXCEPT !.answer = PNone] ELSE @[m]]]

\* the coroutine runs to its next suspension point, or to its end
SetConf(c) ==
    /\ Len(c.rpc.futures) <= MaxFutures
    /\ pc' = c.pc
    /\ lk' = c.lk
    /\ SetRpc(c.rpc)
    /\ awaiting' = c.awaiting
    /\ outcome' = c.outcome

\* the driver makes a call
Called(call) ==
    /\ op' = call
    /\ previous' = IF op.kind = "put" /\ outcome.status = "returned"
                   THEN [kind |-> op.kind, node |-> op.node, key |-> op.key,
                         value |-> op.value, count |-> outcome.count]
                   ELSE NoPrevious

\* the driver calls lookup_node, or put or get reach their lookup_node;
\* most is the number of requests the call can make
Start(call, most) ==
    /\ pc = "idle"
    /\ Len(futures) + most <= MaxFutures
    /\ Called(call)
    /\ \E c \in lookup_node(call) : SetConf(c)
    /\ event' = Event(call.kind, call.node, 0)
    /\ UNCHANGED <<identifier, routing_table, storage, real, last_call>>

LookupCall(n, hashed_key, with_value, most) ==
    Start(Call("lookup_node", n, hashed_key, NoValue, with_value), most)

PutCall(n, raw_key, value, most) ==
    Start(Call("put", n, get_identifier(raw_key), value, FALSE), most)

\* get that asks the network whatever the node's own storage holds
GetCall_nolocal(n, raw_key, most) ==
    Start(Call("get", n, get_identifier(raw_key), NoValue, TRUE), most)

\* get: the value in the node's own storage, or else lookup_node
GetCall(n, raw_key, most) ==
    LET hashed_key == get_identifier(raw_key)
    IN  IF storage[n][hashed_key] # NoValue
        THEN /\ pc = "idle"
             /\ Called(Call("get", n, hashed_key, NoValue, TRUE))
             /\ outcome' = Outcome("returned", <<>>, storage[n][hashed_key], 0)
             /\ lk' = NoLocals
             /\ event' = Event("get", n, 0)
             /\ UNCHANGED <<identifier, routing_table, storage, rpcVars, real,
                            last_call, pc, awaiting>>
        ELSE Start(Call("get", n, hashed_key, NoValue, TRUE), most)

\* the event loop resumes lookup_node once the future it waits for is done
LookupResume ==
    /\ pc = "probe"
    /\ \E m \in awaiting :
          /\ futures[m].state # "pending"
          /\ \E c \in resumed(op, lk, futures[m], Consumed(Rpc, {m})) :
                SetConf(c)
          /\ event' = Event("resume", op.node, m)
          /\ IF futures[m].state = "exception"
             THEN /\ routing_table' = [routing_table EXCEPT ![op.node] =
                         forget_peer(@, identifier[op.node], Head(lk.closest)[1])]
                  /\ last_call' = [op |-> "forget_peer", node |-> op.node,
                                   id |-> Head(lk.closest)[1], addr |-> 0]
             ELSE UNCHANGED <<routing_table, last_call>>
    /\ UNCHANGED <<identifier, storage, real, op, previous>>

\* the event loop resumes put once every store is done
PutResume ==
    /\ pc = "stores"
    /\ \A m \in awaiting : futures[m].state # "pending"
    /\ pc' = "idle"
    /\ awaiting' = {}
    /\ outcome' = Outcome("returned", outcome.peers, NoValue,
                          store_count(Rpc, awaiting))
    /\ SetRpc(Consumed(Rpc, awaiting))
    /\ event' = Event("resume", op.node, 0)
    /\ UNCHANGED <<identifier, routing_table, storage, real, last_call, op,
                   previous, lk>>

(***************************************************************************)
(* The routing table alone.                                                *)
(***************************************************************************)
\* the addresses the routing-table driver passes
RTAddrs == {1, 2}

Init == InitWith([n \in Node |-> IdentifierOf(n)], Node)

NextRT ==
    \/ \E id \in Ids, a \in RTAddrs : UpdatePeerCall(1, id, a)
    \/ \E id \in Ids : ForgetPeerCall(1, id)

SpecRT == Init /\ [][NextRT]_vars

(***************************************************************************)
(* One node and its environment: node 1 is a KademliaNode, every other     *)
(* address belongs to the environment, which sends node 1 any request and  *)
(* any reply at any time (late, duplicated, unsolicited, with any claimed  *)
(* sender identifier).                                                     *)
(***************************************************************************)
EnvAddrs == Addrs \ {1}

EnvReplies(mids, ids, payloads, addrs) ==
    {ReplyFrame(m, Answer(id, p), a, 1) :
        m \in mids, id \in ids, p \in payloads, a \in addrs}

EnvRequests(procs, ids, keys, addrs) ==
    {RequestFrame(1, proc, Args(id, key, "world"), a, 1) :
        proc \in procs, id \in ids, key \in keys, a \in addrs}

InitOpen == InitWith([n \in Node |-> IdentifierOf(n)], {1})

\* the RPC engine: requests of node 1, replies and timers in any order
NextRPC ==
    \/ \E peer \in {0, 2}, proc \in {"ping", "store"} :
          IssueRequest(1, peer, proc, Args(identifier[1], TheKey, "world"))
    \/ \E d \in EnvReplies(1..MaxRequests, {0}, {PId(0), PTrue}, {2}) :
          datagram_received(1, d, network)
    \/ \E t \in timers : TimerFire(t)

SpecRPC == InitOpen /\ [][NextRPC]_vars

\* the event loop runs every call_later callback it was given
SpecRPCFair ==
    SpecRPC /\ \A m \in 1..MaxRequests : WF_vars(TimerFire([node |-> 1, mid |-> m]))

\* the routing table of node 1 under direct calls and under the requests
\* and replies of peers that claim any identifier, node 1's own included
NextTable ==
    \/ \E id \in Ids : UpdatePeerCall(1, id, 3)
    \/ \E id \in Ids : ForgetPeerCall(1, id)
    \/ \E d \in EnvRequests({"ping", "find_node"}, Ids, {TheKey}, {2}) :
          datagram_received(1, d, network)
    \/ \E d \in EnvReplies({1}, Ids, {PTrue}, {2}) :
          datagram_received(1, d, network)

SpecTable == InitOpen /\ [][NextTable]_vars

(***************************************************************************)
(* One node that looks up, puts and gets, and the peers it asks.  The      *)
(* peers answer a probe with any list of at most two contacts (node 1's    *)
(* own identifier and one identifier at two addresses among them), with a  *)
(* value, or not at all.                                                   *)
(***************************************************************************)
\* the peers node 1 can hear of
LookupPeers == {<<0, 2>>, <<4, 3>>, <<2, 2>>, <<4, 2>>}

Rank(p) == p[1] * (NumNodes + 1) + p[2]

ContactLists ==
    LET named == LookupPeers \cup {<<IdentifierOf(1), 1>>}
    IN  {<<>>} \cup {<<p>> : p \in named}
               \cup {c \in named \X named : Rank(c[1]) < Rank(c[2])}

\* the most requests a call makes: one probe for every peer, and k stores
MostRequests == Cardinality(LookupPeers) + K

\* a peer makes itself known to node 1, or stores a value at it
PeerRequest(p, proc) ==
    /\ pc = "idle"
    /\ datagram_received(1, RequestFrame(1, proc,
           Args(p[1], TheKey, "again"), p[2], 1), network)

\* the peer being probed replies
ProbeReply ==
    /\ pc = "probe"
    /\ \E m \in awaiting, contacts \in ContactLists :
          /\ futures[m].state = "pending"
          /\ \E payload \in (IF op.find_value
                             THEN {PFound("world"), PNotFound(contacts)}
                             ELSE {PPeers(contacts)}) :
                datagram_received(1, ReplyFrame(m,
                    Answer(Head(lk.closest)[1], payload),
                    Head(lk.closest)[2], 1), network)

\* a peer sent a store replies: True, the integer 1, or None
StoreReply ==
    /\ pc = "stores"
    /\ \E i \in 1..Len(lk.stores), payload \in {PTrue, PId(1), PNone} :
          /\ futures[lk.stores[i].mid].state = "pending"
          /\ datagram_received(1, ReplyFrame(lk.stores[i].mid,
                 Answer(lk.stores[i].peer[1], payload),
                 lk.stores[i].peer[2], 1), network)

NextLookup ==
    \/ \E p \in LookupPeers : PeerRequest(p, "ping")
    \/ PeerRequest(<<0, 2>>, "store")
    \/ \E key \in {TheKey, IdentifierOf(1)}, with_value \in BOOLEAN :
          LookupCall(1, key, with_value, MostRequests)
    \/ \E raw_key \in RawKeys : PutCall(1, raw_key, "world", MostRequests)
    \/ \E raw_key \in RawKeys : GetCall(1, raw_key, MostRequests)
    \/ ProbeReply
    \/ StoreReply
    \/ \E t \in timers : Timeout(t)
    \/ LookupResume
    \/ PutResume

SpecLookup == InitOpen /\ [][NextLookup]_vars

\* the event loop runs every call_later callback and resumes every coroutine
\* whose future is done
SpecLookupFair ==
    /\ SpecLookup
    /\ \A m \in 1..MaxFutures : WF_vars(Timeout([node |-> 1, mid |-> m]))
    /\ WF_vars(LookupResume)
    /\ WF_vars(PutResume)

(***************************************************************************)
(* A network of KademliaNodes and a driver that calls them one call at a   *)
(* time (kademlia_aio/local_network.py).  No datagram is lost and every    *)
(* reply arrives before the timeout of its request.                        *)
(***************************************************************************)
\* yield from node.ping(peer, node.identifier)
PingCall(n, peer) ==
    /\ pc = "idle"
    /\ Called(Call("ping", n, NoKey, NoValue, FALSE))
    /\ SetConf(Conf("call", NoLocals,
                    request(Rpc, n, peer, "ping",
                            Args(identifier[n], NoKey, NoValue)),
                    {Len(futures) + 1}, Running))
    /\ event' = Event("ping", n, 0)
    /\ UNCHANGED <<identifier, routing_table, storage, real, last_call>>

\* the event loop resumes the caller of ping once the future is done
CallResume ==
    /\ pc = "call"
    /\ \E m \in awaiting :
          /\ futures[m].state # "pending"
          /\ pc' = "idle"
          /\ awaiting' = {}
          /\ outcome' = Outcome(IF futures[m].state = "result"
                                THEN "returned" ELSE "socket.timeout",
                                <<>>, NoValue, 0)
          /\ SetRpc(Consumed(Rpc, {m}))
          /\ event' = Event("resume", op.node, m)
    /\ UNCHANGED <<identifier, routing_table, storage, real, last_call, op,
                   previous, lk>>

\* the nodes the driver puts and gets on
Clients == {1, 2}

Next ==
    \/ \E n \in Node, peer \in Node : n # peer /\ PingCall(n, peer)
    \/ \E n \in Clients, raw_key \in RawKeys, value \in Values :
          PutCall(n, raw_key, value, 1)
    \/ \E n \in Clients, raw_key \in RawKeys : GetCall(n, raw_key, 1)
    \/ \E d \in network : Deliver(d)
    \/ CallResume
    \/ LookupResume
    \/ PutResume

Spec == Init /\ [][Next]_vars

(***************************************************************************)
(* Node 1 as the responder of the four primitive RPCs.  Requests of any    *)
(* procedure arrive from the addresses of nodes 2 and 3 one at a time,     *)
(* with any claimed sender id, key and value; each reply travels back and  *)
(* is received before the next request arrives.                            *)
(***************************************************************************)
\* the sender ids the requests claim: node 1's own is one of them
SenderIds == {0, 2, 4, IdentifierOf(1)}

\* the keys the requests name: node 1's own identifier is one of them
RequestKeys == {TheKey, IdentifierOf(1)}

\* ping(peer, id), store(peer, id, key, value), find_node(peer, id, key)
\* and find_value(peer, id, key)
HandlerRequests ==
    UNION {{RequestFrame(1, "ping", Args(id, NoKey, NoValue), a, 1)}
           \cup {RequestFrame(1, "store", Args(id, key, value), a, 1) :
                    key \in RequestKeys, value \in Values}
           \cup {RequestFrame(1, proc, Args(id, key, NoValue), a, 1) :
                    proc \in {"find_node", "find_value"}, key \in RequestKeys} :
           id \in SenderIds, a \in {2, 3}}

\* a request arrives at node 1 when no datagram is in flight
RequestArrives(d) ==
    /\ network = {}
    /\ datagram_received(1, d, network)

NextHandlers ==
    \/ \E d \in HandlerRequests : RequestArrives(d)
    \/ \E d \in network : Deliver(d)

SpecHandlers == Init /\ [][NextHandlers]_vars

(***************************************************************************)
(* Pings between nodes 1 and 2, while peers that claim other identifiers   *)
(* ping node 1 from the address of node 3.  A reply may arrive after the   *)
(* timeout of its request, and node 3 receives replies it never asked for. *)
(***************************************************************************)
\* the identifiers the peers at the address of node 3 claim
PingerIds == {0, 3}

PingArrivals ==
    {RequestFrame(1, "ping", Args(id, NoKey, NoValue), 3, 1) : id \in PingerIds}

NextPing ==
    \/ \E d \in PingArrivals : RequestArrives(d)
    \/ \E n \in {1, 2}, peer \in {1, 2} :
          /\ n # peer
          /\ IssueRequest(n, peer, "ping", Args(identifier[n], NoKey, NoValue))
    \/ \E d \in network : Deliver(d)
    \/ \E t \in timers : Timeout(t)

SpecPing == Init /\ [][NextPing]_vars

(***************************************************************************)
(* Claims about the routing table.                                         *)
(***************************************************************************)
MainBucket(n, i) == routing_table[n].buckets[i]
Cache(n, i)      == routing_table[n].replacement_caches[i]
Count(d, key)    == Cardinality({j \in 1..Len(d) : d[j][1] = key})

\* C7: every main bucket holds at most k entries; an update_peer of an id
\* that is not in its bucket, when the bucket holds k entries, leaves every
\* main bucket as it was and makes the id the last entry of that bucket's
\* replacement cache, where it occurs once.
C7_BucketBound ==
    /\ [](\A n \in Node : \A i \in Buckets : Len(MainBucket(n, i)) <= K)
    /\ [][ \A n \in Node : \A i \in Buckets :
             ( /\ last_call'.op = "update_peer"
               /\ last_call'.node = n
               /\ IdBits - BitLength(Xor(identifier[n], last_call'.id)) = i
               /\ ~ Has(MainBucket(n, i), last_call'.id)
               /\ Len(MainBucket(n, i)) = K )
             => ( /\ routing_table'[n].buckets = routing_table[n].buckets
                  /\ LET cache == routing_table'[n].replacement_caches[i]
                     IN  /\ Len(cache) > 0
                         /\ cache[Len(cache)] = <<last_call'.id, last_call'.addr>>
                         /\ Count(cache, last_call'.id) = 1 ) ]_vars

\* a full bucket, and the id of the last update_peer behind another entry of
\* the replacement cache
C7_Witness ==
    /\ last_call.op = "update_peer"
    /\ \E i \in Buckets :
         /\ Len(MainBucket(1, i)) = K
         /\ Len(Cache(1, i)) = 2
         /\ Cache(1, i)[2][1] = last_call.id

\* C9: every peer of main bucket i and of the replacement cache of bucket i
\* has i = IdBits - bit_length(self XOR peer id).
C9_BucketIndex ==
    \A n \in Node : \A i \in Buckets :
        \A id \in KeysOf(MainBucket(n, i)) \cup KeysOf(Cache(n, i)) :
            IdBits - BitLength(Xor(identifier[n], id)) = i

\* a forget_peer has promoted a cached peer into a main bucket
C9_Witness ==
    /\ last_call.op = "forget_peer"
    /\ \E i \in Buckets :
         /\ Len(MainBucket(1, i)) = K
         /\ ~ Has(MainBucket(1, i), last_call.id)
         /\ Len(Cache(1, i)) = 1
         /\ IdBits - BitLength(Xor(identifier[1], last_call.id)) = i

(***************************************************************************)
(* Claims about the node's table under requests and replies.               *)
(***************************************************************************)
\* C8: the node's own identifier is in no main bucket and in no replacement
\* cache of its own routing table.
C8_NoSelf ==
    \A n \in Node : \A i \in Buckets :
        identifier[n] \notin KeysOf(MainBucket(n, i)) \cup KeysOf(Cache(n, i))

\* a reply that carries node 1's own identifier as sender has been handled by
\* a node whose table holds a full bucket and a cached peer
C8_Witness ==
    /\ event.kind = "reply_received"
    /\ last_call.op = "update_peer"
    /\ last_call.id = identifier[1]
    /\ \E i \in Buckets : Len(MainBucket(1, i)) = K /\ Len(Cache(1, i)) > 0

(***************************************************************************)
(* Claims about the RPC engine.                                            *)
(***************************************************************************)
Requested == 1..Len(futures)
IsPending(m) == m \in outstanding_requests[futures[m].owner]

\* C2: the Future of every request is resolved at most once, by the reply or
\* by the timeout, whichever the event loop runs first for its message id, and
\* its entry leaves outstanding_requests in that step; a reply or a timer for
\* a message id that is not pending changes neither the table nor any Future.
C2_ResolvedOnce ==
    /\ [](\A m \in Requested :
            /\ futures[m].nset <= 1
            /\ (futures[m].state = "pending") <=> IsPending(m)
            /\ (futures[m].state = "pending") <=> (futures[m].nset = 0))
    /\ [][ /\ \A m \in Requested :
                /\ futures[m].state # "pending" => futures'[m] = futures[m]
                /\ (futures[m].state = "pending" /\ futures'[m].state # "pending")
                   => /\ event'.mid = m
                      /\ futures'[m].nset = 1
                      /\ m \notin outstanding_requests'[futures[m].owner]
                      /\ \/ event'.kind = "reply_received"
                            /\ futures'[m].state = "result"
                         \/ event'.kind = "timer"
                            /\ futures'[m].state = "exception"
                /\ ( /\ event'.kind \in {"reply_received", "timer"}
                     /\ event'.mid = m
                     /\ futures[m].state = "pending" )
                   => futures'[m].state # "pending"
           /\ ( /\ event'.kind \in {"reply_received", "timer"}
                /\ event' # event
                /\ \/ event'.mid \notin Requested
                   \/ ~ IsPending(event'.mid) )
              => /\ outstanding_requests' = outstanding_requests
                 /\ futures' = futures ]_vars

\* the timer of a request fires after the reply has resolved it, while
\* another request is still pending
C2_Witness ==
    /\ event.kind = "timer"
    /\ event.mid \in Requested
    /\ futures[event.mid].state = "result"
    /\ \E m \in Requested : futures[m].state = "pending"

\* C3: every request is eventually completed and leaves outstanding_requests;
\* a timer that fires while its message id is pending fails the Future with
\* the timeout and removes the entry.
C3_EventuallyCompleted ==
    /\ \A m \in 1..MaxRequests :
          (m \in Requested) ~>
              (m \in Requested /\ futures[m].state # "pending" /\ ~ IsPending(m))
    /\ [][ \A m \in Requested :
             ( /\ IsPending(m)
               /\ event'.kind = "timer"
               /\ event'.mid = m )
             => /\ futures'[m].state = "exception"
                /\ m \notin outstanding_requests'[futures[m].owner] ]_vars

\* a ping to the address where nobody listens has ended in the timeout
C3_Witness ==
    /\ event.kind = "timer"
    /\ event.mid \in Requested
    /\ futures[event.mid].state = "exception"
    /\ \A n \in Node : outstanding_requests[n] = {}

(***************************************************************************)
(* Claims about lookup_node and put.                                       *)
(***************************************************************************)
\* the peers whose probe ended in socket.timeout
TimedOut ==
    {lk.probes[i].peer : i \in {j \in 1..Len(lk.probes) :
                                  futures[lk.probes[j].mid].state = "exception"}}

\* lookup_node(hashed_key, find_value=False) has returned (to its caller or
\* to put)
LookupReturned ==
    /\ op.kind \in {"lookup_node", "put"}
    /\ ~op.find_value
    /\ \/ outcome.status = "returned"
       \/ pc = "stores"

\* C4: the result of lookup_node(hashed_key, find_value=False) is min(k,
\* |peers - dead|) distinct peers of peers - dead in ascending XOR distance
\* to hashed_key; none of them timed out during the lookup, and no peer of
\* peers - dead left out is closer to hashed_key than one in the result.
C4_LookupResult ==
    LookupReturned =>
        LET result == outcome.peers
            live   == lk.peers \ lk.dead
        IN  /\ Len(result) = Min(K, Cardinality(live))
            /\ Cardinality(SetOf(result)) = Len(result)
            /\ SetOf(result) \subseteq live
            /\ \A i, j \in 1..Len(result) :
                  i < j => Xor(result[i][1], op.key) <= Xor(result[j][1], op.key)
            /\ SetOf(result) \cap TimedOut = {}
            /\ \A p \in live \ SetOf(result), q \in SetOf(result) :
                  Xor(q[1], op.key) <= Xor(p[1], op.key)

\* a lookup that lost a peer to a timeout and found more than k live ones
C4_Witness ==
    /\ LookupReturned
    /\ op.kind = "lookup_node"
    /\ lk.dead # {}
    /\ Cardinality(lk.peers \ lk.dead) > K
    /\ Len(outcome.peers) = K

\* the probe lookup_node waits for was answered ("found", v)
FoundAnswer(m) ==
    /\ pc = "probe"
    /\ op.find_value
    /\ m \in awaiting
    /\ futures[m].state = "result"
    /\ futures[m].answer.tag = "found"

\* C5: once the probed peer has answered ("found", v), the next thing
\* lookup_node(find_value=True) does is return v; it makes no further
\* request, neither to the rest of the round nor in a later round.
C5_FoundReturns ==
    [][\A m \in 1..Len(futures) :
          FoundAnswer(m) =>
             /\ pc' = "idle"
             /\ outcome' = Outcome("returned", <<>>, futures[m].answer.value, 0)
             /\ Len(futures') = Len(futures)
             /\ lk'.probes = lk.probes
             /\ lk'.contacted = lk.contacted]_vars

\* a value returned while the round had another peer to ask
C5_Witness ==
    /\ op.kind = "lookup_node"
    /\ op.find_value
    /\ outcome.status = "returned"
    /\ outcome.value = "world"
    /\ Len(lk.closest) > 1
    /\ lk.peers # lk.contacted

\* a pass of the while loop begins with this step
PassBegins ==
    \/ pc = "idle" /\ pc' = "probe"
    \/ pc = "probe" /\ pc' = "probe" /\ lk'.rounds = lk.rounds + 1

\* lookup_node leaves the while loop by `break' with this step
LoopBreaks ==
    /\ pc = "probe"
    /\ \/ pc' = "stores"
       \/ pc' = "idle" /\ outcome'.status = "KeyError: Not found"
       \/ pc' = "idle" /\ outcome'.status = "returned" /\ ~op.find_value

\* C6: a lookup_node that runs ends (with a result or an exception); every
\* pass of its loop puts a peer in contacted that was not there, and when
\* the loop is left by break, peers = contacted.
C6_Terminates ==
    /\ (pc = "probe") ~> (pc # "probe")
    /\ [][PassBegins =>
             (IF pc = "idle" THEN {} ELSE lk.contacted) \subseteq lk'.contacted
             /\ lk'.contacted # (IF pc = "idle" THEN {} ELSE lk.contacted)]_vars
    /\ [][LoopBreaks => lk'.peers = lk'.contacted]_vars
    /\ [](lk.contacted \subseteq lk.peers)

\* a lookup that ended after more than one pass of its loop
C6_Witness ==
    /\ op.kind = "lookup_node"
    /\ pc = "idle"
    /\ outcome.status \in {"returned", "KeyError: Not found"}
    /\ lk.rounds > 1
    /\ lk.peers = lk.contacted
    /\ Cardinality(lk.contacted) > 2

\* put hands the peers lookup_node returned to asyncio.gather with this step
StoresBegin == pc = "probe" /\ pc' = "stores"

\* one store(addr, self.identifier, hashed_key, value) for every peer of
\* the lookup's result, and nothing else
StoresIssued ==
    LET peers == outcome'.peers
        base  == Len(futures)
    IN  /\ Len(futures') = base + Len(peers)
        /\ awaiting' = (base + 1)..(base + Len(peers))
        /\ \A i \in 1..Len(peers) :
              /\ futures'[base + i].procedure_name = "store"
              /\ futures'[base + i].peer = peers[i][2]
              /\ futures'[base + i].args =
                    Args(identifier[op.node], get_identifier("hello"), op.value)

\* put returns with this step
PutReturns ==
    /\ op.kind = "put"
    /\ pc # "idle"
    /\ pc' = "idle"
    /\ outcome'.status = "returned"

\* the stores put waited for whose reply was True
RepliedTrue ==
    {m \in awaiting : futures[m].state = "result" /\ futures[m].answer = PTrue}

\* C10: put sends one store to every peer of the lookup's result
\* and returns the number of stores whose reply was exactly True; timeouts
\* and other replies are not counted and put still returns, with a count
\* between 0 and the number of peers (at most k).
C10_CountsExactlyTrue ==
    [][/\ StoresBegin => StoresIssued
       /\ pc = "stores" /\ pc' # "stores" => PutReturns
       /\ PutReturns =>
             /\ outcome'.count =
                   (IF pc = "stores" THEN Cardinality(RepliedTrue) ELSE 0)
             /\ outcome'.count <= Len(outcome'.peers)
             /\ Len(outcome'.peers) <= K]_vars

(***************************************************************************)
(* Claims about put followed by get.                                       *)
(***************************************************************************)
\* get(raw_key) was called on a node right after its put(raw_key, v) had
\* returned a count of at least 1, and has ended
GetAfterPut ==
    /\ op.kind = "get"
    /\ previous.kind = "put"
    /\ previous.node = op.node
    /\ previous.key = op.key
    /\ previous.count >= 1
    /\ outcome.status # "running"

\* C1: on a network that loses nothing, a get(raw_key) called on a node
\* right after put(raw_key, v) returned a count of at least 1 on that node
\* returns v: it does not raise, and it returns no other value.
C1_GetReturnsPut ==
    GetAfterPut => outcome.status = "returned" /\ outcome.value = previous.value

(***************************************************************************)
(* Claims about get.                                                       *)
(***************************************************************************)
\* C11: get(raw_key) on a node whose storage holds the hashed key returns
\* the stored value in the call itself: no request is made, lookup_node
\* does not run, and outstanding_requests, the timers, the network and the
\* routing table are unchanged.  When the key is absent, get runs
\* lookup_node(hashed_key, find_value=True): it fails at once (no seed), or
\* its first request is a find_value for the hashed key.
C11_GetShortCircuit ==
    [][(pc = "idle" /\ event'.kind = "get") =>
          LET n == op'.node
              hashed_key == get_identifier("hello")
          IN  /\ op'.kind = "get"
              /\ op'.key = hashed_key
              /\ IF storage[n][hashed_key] # NoValue
                 THEN /\ pc' = "idle"
                      /\ outcome' = Outcome("returned", <<>>,
                                            storage[n][hashed_key], 0)
                      /\ lk' = NoLocals
                      /\ UNCHANGED <<outstanding_requests, futures, timers,
                                     network, routing_table, storage>>
                 ELSE /\ op'.find_value
                      /\ \/ /\ pc' = "idle"
                            /\ outcome'.status \in
                                  {"KeyError: No peers", "IndexError"}
                            /\ futures' = futures
                         \/ /\ pc' = "probe"
                            /\ Len(futures') = Len(futures) + 1
                            /\ futures'[Len(futures')].procedure_name = "find_value"
                            /\ futures'[Len(futures')].args.key = hashed_key]_vars

\* a get answered from the node's own storage while it knows a peer
C11_Witness ==
    /\ op.kind = "get"
    /\ pc = "idle"
    /\ outcome.status = "returned"
    /\ outcome.value = storage[op.node][op.key]
    /\ lk = NoLocals
    /\ routing_table[op.node] # EmptyTable

(***************************************************************************)
(* Claims about the responder of the primitive RPCs.                       *)
(***************************************************************************)
\* the requests whose handling this step can be: the sender id and the
\* address are those update_peer was called with
HandledNow ==
    {d \in HandlerRequests : /\ d.args.id = last_call'.id
                             /\ d.src = last_call'.addr
                             /\ RequestArrives(d)}

\* the reply the receiver of request d sends with this payload
ReplyTo(d, payload) ==
    ReplyFrame(d.message_identifier, Answer(identifier[d.dst], payload),
               d.dst, d.src)

\* C12: handling store(key, v) sets the value under key to v, changes no
\* other key and answers True; handling find_value(key) while a value is
\* stored under key answers ("found", that value), which is therefore the
\* value of the last store of key handled; ping, find_node and find_value
\* leave the storage as it is, and so does every step that handles no
\* request.
C12_StoreThenFind ==
    /\ [][\A d \in HandledNow :
             /\ d.procedure_name = "store" =>
                   /\ storage' = [storage EXCEPT ![1][d.args.key] = d.args.value]
                   /\ network' = {ReplyTo(d, PTrue)}
             /\ d.procedure_name # "store" => storage' = storage
             /\ (d.procedure_name = "find_value"
                   /\ storage[1][d.args.key] # NoValue) =>
                   network' = {ReplyTo(d, PFound(storage[1][d.args.key]))}]_vars
    /\ [][event'.kind # "request_received" => storage' = storage]_vars

\* find_value answered ("found", "again") from a storage that held "world"
\* under the key before
C12_Witness ==
    /\ storage[1][TheKey] = "again"
    /\ \E d \in network : /\ d.src = 1
                           /\ d.answer.payload = PFound("again")

\* C13: the reply to a request carries the responder's identifier and a
\* payload: the responder's identifier for ping, the responder's
\* find_closest_peers(key, excluding=sender id) for find_node, and
\* ("notfound", that same list) for find_value of a key the responder does
\* not store; none of the peers listed has the sender's id.  The caller's
\* future is resolved with the payload alone.
C13_AnswerIsPayload ==
    [][\A d \in network :
          Deliver(d) =>
             IF d.direction = "request"
             THEN LET b == d.dst
                      closest == find_closest_peers(routing_table'[b],
                                     identifier[b], K, d.args.key, d.args.id, 0)
                      sent == network' \ network
                  IN  /\ d.procedure_name = "ping" =>
                            sent = {ReplyTo(d, PId(identifier[b]))}
                      /\ d.procedure_name = "find_node" =>
                            sent = {ReplyTo(d, PPeers(closest.peers))}
                      /\ (d.procedure_name = "find_value"
                            /\ storage[b][d.args.key] = NoValue) =>
                            sent = {ReplyTo(d, PNotFound(closest.peers))}
                      /\ \A r \in sent :
                            \A i \in 1..Len(r.answer.payload.peers) :
                               r.answer.payload.peers[i][1] # d.args.id
             ELSE d.message_identifier \in outstanding_requests[d.dst] =>
                     /\ futures'[d.message_identifier].state = "result"
                     /\ futures'[d.message_identifier].answer = d.answer.payload]_vars

\* a find_node answered with one peer by a node that knows two, the other
\* being the requester
C13_Witness ==
    \E d \in network :
       /\ d.direction = "reply"
       /\ d.answer.payload.tag = "peers"
       /\ Len(d.answer.payload.peers) = 1
       /\ \E i \in Buckets :
             \E j \in 1..Len(routing_table[d.src].buckets[i]) :
                routing_table[d.src].buckets[i][j][1] = identifier[d.dst]

\* the peer identifier is in a main bucket or a replacement cache of node n
Known(n, peer_identifier) ==
    \E i \in Buckets : \/ Has(routing_table[n].buckets[i], peer_identifier)
                       \/ Has(routing_table[n].replacement_caches[i], peer_identifier)

\* C14: every request and every reply received, a reply whose message id
\* is not pending included, applies update_peer(sender id, source address)
\* to the receiver's routing table in the step that handles it; and when a
\* ping has completed with a reply, each of the two nodes has the other in
\* its routing table, in a main bucket or in a replacement cache.
C14_PeersNoted ==
    /\ [][\A d \in network \cup PingArrivals :
             (Deliver(d) \/ RequestArrives(d)) =>
                routing_table' = [routing_table EXCEPT ![d.dst] =
                    update_peer(@, identifier[d.dst], K,
                                IF d.direction = "request"
                                THEN d.args.id ELSE d.answer.id, d.src)]]_vars
    /\ [](\A m \in 1..Len(futures) :
             (futures[m].procedure_name = "ping" /\ futures[m].state = "result")
                => /\ Known(futures[m].owner, identifier[futures[m].peer])
                   /\ Known(futures[m].peer, identifier[futures[m].owner]))

\* node 1's ping of node 2 completed with node 2 in a replacement cache of
\* node 1, and node 3 noted node 1 from a reply it had not asked for
C14_Witness ==
    /\ \E m \in 1..Len(futures) :
          /\ futures[m].owner = 1
          /\ futures[m].peer = 2
          /\ futures[m].state = "result"
    /\ \E i \in Buckets :
          Has(routing_table[1].replacement_caches[i], identifier[2])
    /\ Known(3, identifier[1])
(***************************************************************************)
(* Claims about the errors of lookup_node.                                 *)
(***************************************************************************)
\* C15: when find_closest_peers(hashed_key) on the node's own routing table
\* returns no peer, lookup_node raises KeyError 'No peers available' in the
\* call itself: no request is registered, no timer armed, no datagram sent;
\* and a put, or a get of a key the node does not hold, called in that
\* state ends with that same error.
C15_NoPeersAvailable ==
    [][(pc = "idle" /\ event'.kind \in {"lookup_node", "put", "get"}) =>
          LET n    == op'.node
              seed == find_closest_peers(routing_table[n], identifier[n], K,
                                         op'.key, NoId, 0)
              runs == op'.kind = "get" => storage[n][op'.key] = NoValue
          IN  (runs /\ seed.ok /\ seed.peers = <<>>) =>
                 /\ pc' = "idle"
                 /\ outcome' = Outcome("KeyError: No peers", <<>>, NoValue, 0)
                 /\ awaiting' = {}
                 /\ UNCHANGED <<outstanding_requests, futures, timers,
                                network, routing_table, storage>>]_vars

\* a put that failed for want of a seed peer, no request made
C15_Witness ==
    /\ op.kind = "put"
    /\ pc = "idle"
    /\ outcome.status = "KeyError: No peers"
    /\ routing_table[op.node] = EmptyTable
    /\ futures = <<>>
    /\ network = {}
\* C16: a lookup_node(hashed_key, find_value=True) that found a seed peer
\* ends with KeyError 'Not found' exactly when no probe of it was answered
\* ("found", value).  The call seeds the candidates from the routing table;
\* a probe answered "found" ends the lookup with the value; a probe answered
\* "notfound" adds every contact it names, the node's own id excepted, to
\* the candidates, and a probe timed out adds its peer to dead and keeps
\* it among the candidates; the lookup fails with 'Not found' in the step
\* where no candidate is left unprobed, and no sooner.  In that state every
\* candidate has been probed once, every probe has ended with a reply or a
\* timeout, and no candidate carries the node's own id.
C16_NotFound ==
    /\ [][(pc = "idle" /\ event'.kind \in {"lookup_node", "get"}
              /\ op'.find_value /\ pc' = "probe") =>
             /\ lk'.peers = SetOf(find_closest_peers(routing_table[op'.node],
                               identifier[op'.node], K, op'.key, NoId, 0).peers)
             /\ lk'.peers # {}
             /\ outcome'.status = "running"]_vars
    /\ [][(pc = "probe" /\ op.find_value /\ event'.kind = "resume") =>
             \A m \in awaiting :
                LET f     == futures[m]
                    found == f.state = "result" /\ f.answer.tag = "found"
                    named == IF f.state = "result"
                             THEN {c \in SetOf(f.answer.peers) :
                                      c[1] # identifier[op.node]}
                             ELSE {}
                IN  IF found
                    THEN /\ pc' = "idle"
                         /\ outcome'.status = "returned"
                         /\ outcome'.value = f.answer.value
                    ELSE /\ lk'.peers = lk.peers \cup named
                         /\ lk'.dead = lk.dead \cup
                               (IF f.state = "exception"
                                THEN {Head(lk.closest)} ELSE {})
                         /\ outcome'.status \in {"running", "KeyError: Not found"}
                         /\ outcome'.status = "KeyError: Not found"
                               <=> lk'.peers \subseteq lk.contacted
                         /\ outcome'.status = "running" <=> pc' = "probe"]_vars
    /\ []((op.find_value /\ pc = "idle" /\ lk.probes # <<>>)
             => outcome.status \in {"returned", "KeyError: Not found"})
    /\ [](outcome.status = "KeyError: Not found" =>
             /\ op.find_value
             /\ pc = "idle"
             /\ lk.peers = {lk.probes[i].peer : i \in 1..Len(lk.probes)}
             /\ \A i, j \in 1..Len(lk.probes) :
                   lk.probes[i].peer = lk.probes[j].peer => i = j
             /\ \A i \in 1..Len(lk.probes) :
                   futures[lk.probes[i].mid].state \in {"result", "exception"}
             /\ lk.dead \subseteq lk.peers
             /\ \A p \in lk.peers : p[1] # identifier[op.node])

\* a get that failed with 'Not found' after probing a seed peer, a peer
\* named in a reply and a peer that timed out
C16_Witness ==
    /\ op.kind = "get"
    /\ outcome.status = "KeyError: Not found"
    /\ Len(lk.probes) >= 3
    /\ lk.dead # {}
    /\ lk.dead # lk.peers
    /\ lk.rounds >= 2
(***************************************************************************)
(* Claims about find_closest_peers, for every key, every `excluding'       *)
(* (None included) and every k from 0 to MaxN, on every table the calls of *)
(* update_peer and forget_peer can build.                                  *)
(***************************************************************************)
MaxN == K + 1

\* the identifiers of the peers: those of the routing-table driver and,
\* for every bucket to hold a peer, the one at distance 2^j for every j
ClosestIds ==
    Ids \cup {id \in AllIds : \E j \in Buckets : Xor(identifier[1], id) = 2^j}

\* the routing table of node 1 under update_peer and forget_peer, each
\* peer at an address of its own as in test_finding_peers (two addresses
\* suffice to tell neighbours apart)
NextClosest ==
    \/ \E id \in ClosestIds : UpdatePeerCall(1, id, 1 + (id % 2))
    \/ \E id \in ClosestIds : ForgetPeerCall(1, id)

SpecClosest == Init /\ [][NextClosest]_vars

\* the entries of the main buckets whose identifier is not `excluding'
MainPeers(rt, excluding) ==
    {e \in Buckets \X (1..K) : /\ e[2] <= Len(rt.buckets[e[1]])
                               /\ rt.buckets[e[1]][e[2]][1] # excluding}

C18_SweepOrder ==
    \A key \in AllIds, excluding \in AllIds \cup {NoId}, N \in 0..MaxN :
        LET rt      == routing_table[1]
            found   == find_closest_peers(rt, identifier[1], K, key, excluding, N)
            b       == IdBits - BitLength(Xor(identifier[1], key))
            turn(i) == IF i <= b THEN 2 * (b - i) ELSE 2 * (i - b - 1) + 1
            before(x, e) == \/ turn(x[1]) < turn(e[1])
                            \/ x[1] = e[1] /\ x[2] > e[2]
            entries == MainPeers(rt, excluding)
        IN  found.ok =>
               /\ Len(found.peers) =
                     Min(IF N = 0 THEN K ELSE N, Cardinality(entries))
               /\ \A e \in entries :
                     LET p == Cardinality({x \in entries : before(x, e)}) + 1
                     IN  p <= Len(found.peers) =>
                            found.peers[p] = rt.buckets[e[1]][e[2]]

\* the table holds a peer in every bucket, two in bucket 0 and one more in
\* its replacement cache: the sweep for a key of a middle bucket lists that
\* bucket, then the bucket above it, then the last peer of bucket 0
C18_Witness ==
    LET rt    == routing_table[1]
        b     == IdBits - BitLength(Xor(identifier[1], TheKey))
        found == find_closest_peers(rt, identifier[1], K, TheKey, NoId, MaxN)
    IN  /\ 0 < b /\ b < IdBits - 1
        /\ \A i \in Buckets : rt.buckets[i] # <<>>
        /\ Len(rt.buckets[b - 1]) = 2
        /\ rt.replacement_caches[b - 1] # <<>>
        /\ found.ok
        /\ found.peers = <<rt.buckets[b][Len(rt.buckets[b])],
                           rt.buckets[b + 1][Len(rt.buckets[b + 1])],
                           rt.buckets[b - 1][2]>>
(***************************************************************************)
(* DatagramRPCProtocol with the message identifier drawn, as request()     *)
(* draws it: get_random_identifier() returns any identifier, one that is   *)
(* pending included, and request() stores the Future under it without      *)
(* looking.  outstanding_requests is here the dict itself, the set of      *)
(* pairs (message identifier, number of the Future), and a timer carries   *)
(* the number of the request that armed it.                                *)
(***************************************************************************)
\* the identifiers get_random_identifier returns
MessageIds == 1..2

\* outstanding_requests[message_identifier], if there is one
Registered(r, n, message_identifier) ==
    {e \in r.outstanding_requests[n] : e[1] = message_identifier}

request_drawn(r, n, peer, procedure_name, args, message_identifier) ==
    LET number == Len(r.futures) + 1
    IN  [r EXCEPT
           !.outstanding_requests[n] =
               (@ \ Registered(r, n, message_identifier))
                  \cup {<<message_identifier, number>>},
           !.futures = Append(@, PendingFuture(n, peer, procedure_name, args)),
           !.timers = @ \cup {[node |-> n, mid |-> message_identifier,
                               request |-> number]},
           !.network = sendto(@, RequestFrame(message_identifier,
                                  procedure_name, args, n, peer))]

\* reply_received and reply_timed_out: pop the entry, set its Future
popped(r, n, message_identifier, state, answer) ==
    IF Registered(r, n, message_identifier) # {}
    THEN LET e == CHOOSE e \in Registered(r, n, message_identifier) : TRUE
         IN  [r EXCEPT !.outstanding_requests[n] = @ \ {e},
                       !.futures[e[2]] = Resolve(@, state, answer)]
    ELSE r

\* node 1 makes requests; replies with any identifier arrive; timers fire
NextDrawn ==
    \/ /\ Len(futures) < MaxRequests
       /\ \E message_identifier \in MessageIds, peer \in {0, 2} :
             /\ SetRpc(request_drawn(Rpc, 1, peer, "ping",
                          Args(identifier[1], NoKey, NoValue),
                          message_identifier))
             /\ event' = Event("request", 1, message_identifier)
       /\ UNCHANGED <<identifier, routing_table, storage, real, last_call,
                      coVars>>
    \/ /\ \E message_identifier \in MessageIds, id \in {0, 2} :
             /\ SetRpc(popped(Rpc, 1, message_identifier, "result", PId(id)))
             /\ event' = Event("reply_received", 1, message_identifier)
       /\ UNCHANGED <<identifier, routing_table, storage, real, last_call,
                      coVars>>
    \/ /\ \E t \in timers :
             /\ SetRpc(popped([Rpc EXCEPT !.timers = @ \ {t}], t.node, t.mid,
                              "exception", PNone))
             /\ event' = Event("timer", t.node, t.mid)
       /\ UNCHANGED <<identifier, routing_table, storage, real, last_call,
                      coVars>>

SpecDrawn == InitOpen /\ [][NextDrawn]_vars

(***************************************************************************)
(* Claims about message identifiers.                                       *)
(***************************************************************************)
\* C19: request() never registers a message identifier that is pending;
\* every Future that is not done is the entry of the pending table under
\* the identifier of its request, so that no request overwrites or orphans
\* the Future of an earlier one; and the timer of a request sets no Future
\* but that request's own.
C19_IdsNotReused ==
    /\ [][event'.kind = "request" =>
             \A e \in outstanding_requests[1] : e[1] # event'.mid]_vars
    /\ [](\A f \in 1..Len(futures) :
             futures[f].state = "pending" =>
                \E e \in outstanding_requests[futures[f].owner] : e[2] = f)
    /\ [][event'.kind = "timer" =>
             \A t \in timers \ timers' : \A f \in 1..Len(futures) :
                futures'[f] # futures[f] => f = t.request]_vars
(***************************************************************************)
(* Claims about update_peer.                                               *)
(***************************************************************************)
\* C20: after update_peer(id, addr) with id other than the node's own
\* identifier, id is in exactly one container of the table, the main
\* bucket or else the replacement cache of bucket bucket_index(id); there
\* it occurs once, as the last entry, with the address addr; and the other
\* entries of that container are those it held before, in the same order.
C20_UpdatedPeerLast ==
    [][\A n \in Node :
          (/\ last_call'.op = "update_peer"
           /\ last_call'.node = n
           /\ last_call'.id # identifier[n]) =>
             LET id      == last_call'.id
                 b       == IdBits - BitLength(Xor(identifier[n], id))
                 before  == routing_table[n]
                 after   == routing_table'[n]
                 holders == {c \in {"buckets", "replacement_caches"} \X Buckets :
                                Has(after[c[1]][c[2]], id)}
             IN  /\ Cardinality(holders) = 1
                 /\ \A c \in holders :
                       LET new == after[c[1]][c[2]]
                           old == before[c[1]][c[2]]
                       IN  /\ c[2] = b
                           /\ new[Len(new)] = <<id, last_call'.addr>>
                           /\ Count(new, id) = 1
                           /\ SubSeq(new, 1, Len(new) - 1) = Del(old, id)]_vars

\* the peer of the last update_peer is the last of the two peers in the
\* replacement cache of a full bucket, with the address given
C20_Witness ==
    /\ last_call.op = "update_peer"
    /\ \E i \in Buckets :
          LET cache == Cache(1, i)
          IN  /\ Len(cache) = 2
              /\ cache[2] = <<last_call.id, last_call.addr>>
              /\ last_call.addr = 2
              /\ Len(MainBucket(1, i)) = K
(***************************************************************************)
(* Claims about forget_peer and about update_peer applied twice.           *)
(***************************************************************************)
\* C21: forget_peer(id) for an id in its main bucket removes that entry and
\* keeps the others in their order; if the replacement cache of that bucket
\* is not empty, its last entry (the most recently inserted) becomes the
\* last entry of the main bucket and leaves the cache, whose other entries
\* stay as they are; every other bucket and cache is unchanged.
\* forget_peer(id) for an id that is not in its main bucket (unknown, in
\* the replacement cache only, or the node's own identifier) changes no
\* bucket and no cache.
C21_ForgetPeer ==
    [][\A n \in Node :
          (last_call'.op = "forget_peer" /\ last_call'.node = n) =>
             LET id     == last_call'.id
                 before == routing_table[n]
                 after  == routing_table'[n]
             IN  IF \E i \in Buckets : Has(before.buckets[i], id)
                 THEN \A i \in Buckets :
                         LET bucket == before.buckets[i]
                             cache  == before.replacement_caches[i]
                         IN  IF ~Has(bucket, id)
                             THEN /\ after.buckets[i] = bucket
                                  /\ after.replacement_caches[i] = cache
                             ELSE /\ id # identifier[n]
                                  /\ Count(bucket, id) = 1
                                  /\ IF cache = <<>>
                                     THEN /\ after.buckets[i] = Del(bucket, id)
                                          /\ after.replacement_caches[i] = <<>>
                                     ELSE /\ after.buckets[i] =
                                               Append(Del(bucket, id),
                                                      cache[Len(cache)])
                                          /\ after.replacement_caches[i] =
                                               SubSeq(cache, 1, Len(cache) - 1)
                 ELSE after = before]_vars

\* forget_peer of a peer of a full bucket with two cached peers has left
\* the bucket full and one peer in the cache
C21_Witness ==
    /\ last_call.op = "forget_peer"
    /\ \E i \in Buckets :
         /\ IdBits - BitLength(Xor(identifier[1], last_call.id)) = i
         /\ Len(MainBucket(1, i)) = K
         /\ Len(Cache(1, i)) = 1
         /\ ~ Has(MainBucket(1, i), last_call.id)
         /\ ~ Has(Cache(1, i), last_call.id)
         /\ MainBucket(1, i)[K][2] = 2
         /\ Cache(1, i)[1][2] = 1
\* C22: on every table the calls of update_peer and forget_peer build, for
\* every identifier and address, update_peer(id, addr) applied twice gives
\* the buckets and replacement caches, contents and order, that it gives
\* applied once.
C22_UpdateTwice ==
    \A id \in AllIds, peer \in RTAddrs :
        LET once == update_peer(routing_table[1], identifier[1], K, id, peer)
        IN  update_peer(once, identifier[1], K, id, peer) = once

\* a table where update_peer moves a known peer of a bucket to its end,
\* and moves a cached peer of that full bucket to the end of the cache
C22_Witness ==
    \E i \in Buckets :
        /\ Len(MainBucket(1, i)) = K
        /\ Len(Cache(1, i)) = 2
        /\ update_peer(routing_table[1], identifier[1], K,
                       MainBucket(1, i)[1][1], 2).buckets[i][K][1]
              = MainBucket(1, i)[1][1]
        /\ update_peer(routing_table[1], identifier[1], K,
                       Cache(1, i)[1][1], 2).replacement_caches[i][2][1]
              = Cache(1, i)[1][1]
(***************************************************************************)
(* Claims about the bucket index of the node's own identifier.             *)
(***************************************************************************)
\* C23: no operation indexes the buckets with bucket_index of the node's
\* own identifier: find_closest_peers(key) returns a list for every key,
\* the node's own identifier included, when it is called directly, when
\* the find_node or find_value handler calls it, and when lookup_node
\* calls it for its seed.
C23_NoSentinelIndex ==
    /\ \A key \in AllIds :
          find_closest_peers(routing_table[1], identifier[1], K, key,
                             NoId, 0).ok
    /\ \A key \in AllIds, procedure_name \in {"find_node", "find_value"} :
          reply_function(1, routing_table[1], storage[1], procedure_name,
                         Args(0, key, NoValue)).ok
    /\ outcome.status # "IndexError"
(***************************************************************************)
(* Claims about the probes of lookup_node.                                 *)
(***************************************************************************)
\* C24: the probes of one lookup_node go to distinct candidates (id,
\* address), whether the candidate replied or timed out and however often
\* replies name it; each probe is one find_node (find_value for a lookup
\* of a value) request for the hashed key to the candidate's address, and
\* the lookup makes no other request; when the loop has ended for want of
\* an uncontacted candidate, the probed peers are exactly the candidates,
\* the dead ones among them.
C24_ProbedOnce ==
    /\ \A i, j \in 1..Len(lk.probes) :
          lk.probes[i].peer = lk.probes[j].peer => i = j
    /\ \A i \in 1..Len(lk.probes) :
          LET f == futures[lk.probes[i].mid]
          IN  /\ lk.probes[i].mid = i
              /\ f.owner = op.node
              /\ f.peer = lk.probes[i].peer[2]
              /\ f.procedure_name =
                    (IF op.find_value THEN "find_value" ELSE "find_node")
              /\ f.args.key = op.key
              /\ lk.probes[i].peer \in lk.peers
    /\ lk.probes # <<>> =>
          \A m \in 1..Len(futures) :
             futures[m].procedure_name \in {"find_node", "find_value"}
                => m <= Len(lk.probes)
    /\ ( \/ outcome.status = "KeyError: Not found"
         \/ pc = "stores"
         \/ (op.kind \in {"lookup_node", "put"} /\ ~op.find_value
               /\ pc = "idle" /\ outcome.status = "returned") )
          => /\ lk.peers = {lk.probes[i].peer : i \in 1..Len(lk.probes)}
             /\ Len(lk.probes) = Cardinality(lk.peers)
             /\ lk.dead \subseteq lk.peers

\* a lookup_node has returned after one probe of each of the four peers
\* there are, one identifier at two addresses and a dead peer among them
C24_Witness ==
    /\ op.kind = "lookup_node"
    /\ ~op.find_value
    /\ pc = "idle"
    /\ outcome.status = "returned"
    /\ Len(lk.probes) = Cardinality(LookupPeers)
    /\ lk.dead # {}
\* node 1 and its lookups against peers whose replies name three contacts
\* at once, so that a round starts with more than alpha uncontacted
\* candidates
RoundReply ==
    /\ pc = "probe"
    /\ \E m \in awaiting :
          /\ futures[m].state = "pending"
          /\ \E contacts \in {<<>>} \cup
                   {c \in LookupPeers \X LookupPeers \X LookupPeers :
                       Rank(c[1]) < Rank(c[2]) /\ Rank(c[2]) < Rank(c[3])} :
                datagram_received(1, ReplyFrame(m,
                    Answer(Head(lk.closest)[1],
                           IF op.find_value THEN PNotFound(contacts)
                           ELSE PPeers(contacts)),
                    Head(lk.closest)[2], 1), network)

NextRounds ==
    \/ \E p \in LookupPeers : PeerRequest(p, "ping")
    \/ \E with_value \in BOOLEAN :
          LookupCall(1, TheKey, with_value, MaxFutures)
    \/ RoundReply
    \/ \E t \in timers : Timeout(t)
    \/ LookupResume

SpecRounds == InitOpen /\ [][NextRounds]_vars

\* C25: a round of lookup_node (one pass of the while loop) probes the
\* alpha uncontacted candidates nearest to hashed_key by XOR distance, all
\* of them when they are fewer, as they are when the round starts and in
\* ascending order of distance; the probes of a round are made one at a
\* time, the next one when the one before has been resolved by a reply or
\* a timeout, and a contact learned in a round is probed in a later round
\* only: within a round the peers still to probe are the rest of the list
\* made at its start.
C25_Rounds ==
    /\ [][(pc' = "probe" /\ (pc = "idle" \/ lk'.rounds # lk.rounds)) =>
             LET closest     == lk'.closest
                 uncontacted == (lk'.peers \ lk'.contacted)
                                   \cup {Head(closest)}
                 far(p)      == Xor(p[1], op'.key)
             IN  /\ Len(closest) = Min(Alpha, Cardinality(uncontacted))
                 /\ SetOf(closest) \subseteq uncontacted
                 /\ \A i, j \in 1..Len(closest) :
                       /\ i < j => far(closest[i]) <= far(closest[j])
                       /\ closest[i] = closest[j] => i = j
                 /\ \A p \in uncontacted \ SetOf(closest) :
                       \A i \in 1..Len(closest) : far(closest[i]) <= far(p)
                 /\ lk'.rounds = (IF pc = "idle" THEN 1 ELSE lk.rounds + 1)]_vars
    /\ [][(pc = "probe" /\ pc' = "probe" /\ lk'.rounds = lk.rounds
              /\ lk' # lk) =>
             /\ lk'.closest = Tail(lk.closest)
             /\ \A m \in awaiting : futures[m].state # "pending"]_vars
    /\ [](pc = "probe" =>
             /\ 1 <= Len(lk.closest) /\ Len(lk.closest) <= Alpha
             /\ lk.probes[Len(lk.probes)].peer = Head(lk.closest)
             /\ awaiting = {lk.probes[Len(lk.probes)].mid}
             /\ \A i \in 1..(Len(lk.probes) - 1) :
                   futures[lk.probes[i].mid].state # "pending")

\* the second round has probed alpha peers and is waiting for the reply of
\* the last one, while a third candidate that was uncontacted when the
\* round started is left for the next round
C25_Witness ==
    /\ pc = "probe"
    /\ lk.rounds = 2
    /\ Len(lk.probes) = 1 + Alpha
    /\ Len(lk.closest) = 1
    /\ lk.peers \ lk.contacted # {}
\* C26: when lookup_node is resumed with the timeout of a probe, it calls
\* forget_peer with the identifier of the peer probed, after which that
\* identifier is in no main bucket; it adds the peer to dead and nothing
\* to the candidates; and it goes on: to the next peer of the round if
\* there is one, else to the next round if a candidate is uncontacted,
\* else to the end of the loop, the outcome being no timeout error.  A
\* resume with a reply leaves dead and the routing table as they are, and
\* every peer in dead has a probe that timed out.
C26_TimeoutGoesOn ==
    /\ [][(pc = "probe" /\ event'.kind = "resume") =>
             \A m \in awaiting :
                LET n    == op.node
                    peer == Head(lk.closest)
                IN  IF futures[m].state = "exception"
                    THEN /\ last_call' = [op |-> "forget_peer", node |-> n,
                                          id |-> peer[1], addr |-> 0]
                         /\ routing_table' = [routing_table EXCEPT ![n] =
                               forget_peer(@, identifier[n], peer[1])]
                         /\ \A i \in Buckets :
                               ~Has(routing_table'[n].buckets[i], peer[1])
                         /\ lk'.dead = lk.dead \cup {peer}
                         /\ lk'.peers = lk.peers
                         /\ outcome'.status \in
                               {"running", "returned", "KeyError: Not found"}
                         /\ IF Tail(lk.closest) # <<>>
                            THEN /\ pc' = "probe"
                                 /\ lk'.closest = Tail(lk.closest)
                                 /\ lk'.rounds = lk.rounds
                            ELSE IF lk.peers \ lk.contacted # {}
                            THEN /\ pc' = "probe"
                                 /\ lk'.rounds = lk.rounds + 1
                            ELSE pc' # "probe"
                    ELSE /\ lk'.dead = lk.dead
                         /\ routing_table' = routing_table]_vars
    /\ [][(pc' = "probe" /\ ~(pc = "probe" /\ event'.kind = "resume")) =>
             lk'.dead = IF pc = "idle" THEN {} ELSE lk.dead]_vars
    /\ [](\A p \in lk.dead :
             \E i \in 1..Len(lk.probes) :
                /\ lk.probes[i].peer = p
                /\ futures[lk.probes[i].mid].state = "exception")

\* a lookup_node has returned peers after the timeout of its first probe:
\* the dead peer is in no main bucket and not in the result
C26_Witness ==
    /\ op.kind = "lookup_node"
    /\ pc = "idle"
    /\ outcome.status = "returned"
    /\ outcome.peers # <<>>
    /\ Len(lk.probes) >= 2
    /\ lk.probes[1].peer \in lk.dead
    /\ futures[lk.probes[1].mid].state = "exception"
    /\ \A i \in Buckets :
          ~Has(routing_table[1].buckets[i], lk.probes[1].peer[1])
\* C27: during lookup_node no candidate carries the node's own identifier:
\* a resume with a reply adds the contacts it names to the candidates, the
\* ones with the node's identifier left out; no peer of a round, no peer
\* contacted and no probe carries it; and no peer of the list that
\* lookup_node(find_value=False) returns carries it.
C27_NeverItself ==
    /\ [][(pc = "probe" /\ event'.kind = "resume") =>
             \A m \in awaiting :
                (futures[m].state = "result"
                    /\ futures[m].answer.tag \in {"peers", "notfound"}) =>
                   lk'.peers = lk.peers \cup
                      {c \in SetOf(futures[m].answer.peers) :
                          c[1] # identifier[op.node]}]_vars
    /\ [](op.node \in Node =>
             /\ \A p \in lk.peers \cup lk.contacted \cup lk.dead
                           \cup SetOf(lk.closest) :
                   p[1] # identifier[op.node]
             /\ \A i \in 1..Len(lk.probes) :
                   lk.probes[i].peer[1] # identifier[op.node]
             /\ \A i \in 1..Len(lk.stores) :
                   lk.stores[i].peer[1] # identifier[op.node]
             /\ \A i \in 1..Len(outcome.peers) :
                   outcome.peers[i][1] # identifier[op.node])

\* a probe has been answered with contacts that name the node's own
\* identifier, and lookup_node is about to be resumed with them
C27_Witness ==
    /\ pc = "probe"
    /\ ~op.find_value
    /\ \E m \in awaiting :
          /\ futures[m].state = "result"
          /\ \E i \in 1..Len(futures[m].answer.peers) :
                futures[m].answer.peers[i][1] = identifier[op.node]
          /\ Len(futures[m].answer.peers) = 2
(***************************************************************************)
(* Claims about the handling of a request as one step.                     *)
(***************************************************************************)
\* C28: the handling of a request for ping, store, find_node or find_value
\* is one step: in it the routing table notes the sender, the storage
\* takes the handler's effect, and exactly one frame is sent, a reply with
\* the message identifier of the request, from the receiver to the address
\* the request came from.
C28_OneReply ==
    [][\A d \in HandledNow :
          /\ routing_table' = [routing_table EXCEPT ![d.dst] =
                update_peer(@, identifier[d.dst], K, d.args.id, d.src)]
          /\ storage' = [storage EXCEPT ![d.dst] =
                reply_function(d.dst, routing_table'[d.dst], storage[d.dst],
                               d.procedure_name, d.args).storage]
          /\ \E sent \in network' :
                /\ network' = {sent}
                /\ sent.direction = "reply"
                /\ sent.message_identifier = d.message_identifier
                /\ sent.src = d.dst
                /\ sent.dst = d.src]_vars
(***************************************************************************)
(* Claims about the replacement caches.                                    *)
(***************************************************************************)
\* C29: in every state of the routing table, a bucket whose replacement
\* cache is not empty holds exactly k entries; a step gives a replacement
\* cache a new entry only when the bucket holds k entries, and a step that
\* takes an entry out of a bucket whose cache is not empty leaves the
\* bucket with as many entries as it had, the cache with one fewer.
C29_CacheMeansFull ==
    /\ [](\A n \in Node : \A i \in Buckets :
             Cache(n, i) # <<>> => Len(MainBucket(n, i)) = K)
    /\ [][\A n \in Node : \A i \in Buckets :
             LET bucket == routing_table[n].buckets[i]
                 cache  == routing_table[n].replacement_caches[i]
                 bucket_after == routing_table'[n].buckets[i]
                 cache_after  == routing_table'[n].replacement_caches[i]
             IN  /\ KeysOf(cache_after) \ KeysOf(cache) # {} =>
                       /\ Len(bucket) = K
                       /\ bucket_after = bucket
                 /\ (KeysOf(bucket) \ KeysOf(bucket_after) # {}
                       /\ cache # <<>>) =>
                       /\ Len(bucket_after) = Len(bucket)
                       /\ Len(cache_after) = Len(cache) - 1]_vars

\* forget_peer has taken a peer out of a full bucket, which is full again
\* with the peer that was cached last, and a peer is still cached
C29_Witness ==
    /\ last_call.op = "forget_peer"
    /\ \E i \in Buckets :
         /\ IdBits - BitLength(Xor(identifier[1], last_call.id)) = i
         /\ ~ Has(MainBucket(1, i), last_call.id)
         /\ ~ Has(Cache(1, i), last_call.id)
         /\ Len(MainBucket(1, i)) = K
         /\ Len(Cache(1, i)) = 1
         /\ MainBucket(1, i)[K][2] = 1
         /\ Cache(1, i)[1][2] = 2
(***************************************************************************)
(* Claims about the peers lookup_node returns.                             *)
(***************************************************************************)
\* C30: when lookup_node for peers (find_value false) has returned, every
\* peer of its result is a candidate this lookup has sent a probe to, and
\* the Future of that probe holds a result, no socket.timeout: no peer of
\* the result is one the lookup has only been told of.
C30_ResultProbed ==
    (op.kind = "lookup_node" /\ ~op.find_value /\ pc = "idle"
        /\ outcome.status = "returned") =>
       \A i \in 1..Len(outcome.peers) :
          \E j \in 1..Len(lk.probes) :
             /\ lk.probes[j].peer = outcome.peers[i]
             /\ futures[lk.probes[j].mid].state = "result"
             /\ futures[lk.probes[j].mid].procedure_name = "find_node"
             /\ futures[lk.probes[j].mid].peer = outcome.peers[i][2]

\* a lookup_node has returned k peers, one of them a peer it was told of by
\* another peer and probed in a later round, and a probed peer has timed out
C30_Witness ==
    /\ op.kind = "lookup_node"
    /\ ~op.find_value
    /\ pc = "idle"
    /\ outcome.status = "returned"
    /\ Len(outcome.peers) = K
    /\ lk.rounds >= 2
    /\ \E i \in 1..Len(outcome.peers) : \E j \in 1..Len(lk.probes) :
          /\ lk.probes[j].peer = outcome.peers[i]
          /\ j > Alpha
    /\ \E j \in 1..Len(lk.probes) :
          futures[lk.probes[j].mid].state = "exception"
\* C31: the list lookup_node for peers (find_value false) returns holds
\* each peer identifier at most once, also when replies have named one
\* identifier at two addresses, and the store requests of one put go to
\* peers of distinct identifiers.
C31_DistinctIds ==
    /\ (op.kind = "lookup_node" /\ ~op.find_value /\ pc = "idle"
          /\ outcome.status = "returned") =>
          \A i, j \in 1..Len(outcome.peers) :
             outcome.peers[i][1] = outcome.peers[j][1] => i = j
    /\ (op.kind = "put" /\ (pc = "stores" \/ outcome.status = "returned")) =>
          \A i, j \in 1..Len(lk.stores) :
             lk.stores[i].peer[1] = lk.stores[j].peer[1] => i = j

=============================================================================
